---- MODULE Spec2Model ----
(***************************************************************************)
(* Model of the NCAL study application: the answer normalizer              *)
(* (normalize.js), the question-bank field splitter (parser.js) and the    *)
(* practice-session engine (app.js with the parts of ui.js it calls).      *)
(*                                                                         *)
(* Text is modelled as a sequence of one-character strings, so that the    *)
(* string operations of the source act on characters as they do in the     *)
(* program.                                                                *)
(***************************************************************************)
EXTENDS Integers, Sequences, FiniteSets, TLC

VARIABLES
    \* ---- normalize.js harness ----
    userInput,      \* the string handed to normalize / isCorrect
    answersArray,   \* the accepted answers handed to isCorrect
    variation,      \* how userInput was derived from answersArray[1]
    normalized,     \* result of normalize(userInput), once computed
    matched,        \* result of isCorrect(userInput, answersArray), once computed
    normPc,         \* "input" before the functions ran, "done" after
    \* ---- parser.js splitter harness ----
    line,           \* the raw line handed to splitOnUnescapedSemicolons
    fields,         \* its result, once computed
    splitPc,        \* "input" / "done"
    \* ---- parser.js harness: parseQuestionLine and parseQuestionBank ----
    filename,       \* the filename handed to the parser
    lineNumber,     \* the lineNumber handed to parseQuestionLine
    parsedLine,     \* result of parseQuestionLine(line, filename, lineNumber)
    content,        \* the file content handed to parseQuestionBank
    bankResult,     \* result of parseQuestionBank(content, filename)
    parsePc,        \* "line" / "bank" before the call, "lineDone" / "bankDone" after
    \* ---- the application (app.js appState and the DOM state it reads) ----
    bank,                   \* the records the bank file parses to (what fetch will deliver)
    loadState,              \* "loading" / "loaded" / "failed": progress of loadQuestionBank
    questions,              \* appState.questions
    checked,                \* values of the subject checkboxes that are checked
    disabled,               \* values of the subject checkboxes that are disabled
    selectedLevel,          \* value of the checked level radio ("" = any)
    filteredQuestions,      \* appState.filteredQuestions
    currentQuestionIndex,   \* appState.currentQuestionIndex (0-based)
    userAnswers,            \* appState.userAnswers: index (0-based) -> answer record
    timeAllocated,          \* appState.timeAllocated
    timer,                  \* appState.timer: Null or the id of an interval
    intervals,              \* the live countdown intervals, each with its closure's timeLeft
                            \* and (history) the unpaused runs of its callback so far
    countdownText,          \* textContent of #timer-countdown
    isPaused,               \* appState.isPaused
    isSessionActive,        \* appState.isSessionActive
    textRevealTimer,        \* appState.textRevealTimer: Null or the id of an interval
    reveals,                \* ids of the live text-reveal intervals
    screen,                 \* the screen that has class "active"
    lastStart,              \* history: path taken by the last startPracticeSession call
    enterPressCount,        \* appState.enterPressCount
    lastEnterTime,          \* appState.lastEnterTime
    lastEnter,              \* history: the last Enter press in the answer input
    statsDisplay,           \* texts of #correct-count, #incorrect-count, #accuracy-display
    summaryDisplay,         \* what showSummary last wrote on the summary screen
    now,                    \* what Date.now() returns, in ms
    nextDisabled,           \* the disabled property of #next-question
    \* ---- ui.js harness: the statistics display and the summary ----
    uiQuestions,    \* the questions handed to showSummary
    uiAnswers,      \* the userAnswers handed to calculateStats / showSummary
    uiShown,        \* what the functions left on the display, once they ran
    uiPc            \* "stats" / "summary" before the call, "statsDone" / "summaryDone" after

normVars == <<userInput, answersArray, variation, normalized, matched, normPc>>
splitVars == <<line, fields, splitPc>>
parseVars == <<filename, lineNumber, parsedLine, content, bankResult, parsePc>>
filterVars == <<questions, checked, disabled, selectedLevel>>
sessionVars == <<filteredQuestions, currentQuestionIndex, userAnswers, timer, intervals,
                 countdownText, isPaused, isSessionActive, textRevealTimer, reveals>>
keyVars == <<enterPressCount, lastEnterTime, lastEnter>>
envVars == <<now, nextDisabled>>
appVars == <<bank, loadState, filterVars, sessionVars, timeAllocated, screen, lastStart,
             keyVars, statsDisplay, summaryDisplay, envVars>>
uiVars == <<uiQuestions, uiAnswers, uiShown, uiPc>>
pureVars == <<normVars, splitVars, parseVars, uiVars>>
vars == <<normVars, splitVars, parseVars, uiVars, appVars>>

(***************************************************************************)
(* Bounds of the model                                                     *)
(***************************************************************************)
MaxTokens == 3          \* tokens concatenated into a normalize input
MaxLineLen == 5         \* characters of a line handed to the splitter

(***************************************************************************)
(* Characters and strings                                                  *)
(***************************************************************************)
Lowercase == <<"a","b","c","d","e","f","g","h","i","j","k","l","m",
               "n","o","p","q","r","s","t","u","v","w","x","y","z">>
Uppercase == <<"A","B","C","D","E","F","G","H","I","J","K","L","M",
               "N","O","P","Q","R","S","T","U","V","W","X","Y","Z">>

\* String.prototype.trim and the regexp class \s: the whitespace characters
Whitespace == {" ", "\t"}

IsBlank(str) == \A i \in 1..Len(str) : str[i] \in Whitespace

RECURSIVE TrimStart(_)
TrimStart(str) ==
    IF str # <<>> /\ Head(str) \in Whitespace THEN TrimStart(Tail(str)) ELSE str

RECURSIVE TrimEnd(_)
TrimEnd(str) ==
    IF str # <<>> /\ str[Len(str)] \in Whitespace
    THEN TrimEnd(SubSeq(str, 1, Len(str) - 1))
    ELSE str

\* A trim that removes nothing
Trim_RemovesNothing(str) == str

Trim(str) == TrimEnd(TrimStart(str))

ToUpperChar(c) ==
    IF \E i \in 1..Len(Lowercase) : Lowercase[i] = c
    THEN Uppercase[CHOOSE i \in 1..Len(Lowercase) : Lowercase[i] = c]
    ELSE c

ToUpperCase(str) == [i \in 1..Len(str) |-> ToUpperChar(str[i])]

\* .replaceAll('-', ' ')
ReplaceHyphens(str) == [i \in 1..Len(str) |-> IF str[i] = "-" THEN " " ELSE str[i]]

\* The regular expression /[.,!?:"'()\\[\\]{}]/g of normalize: the character
\* class is closed by the first unescaped "]", so it holds . , ! ? : " ' ( )
\* backslash and "[", and the pattern goes on with the three literal
\* characters "{", "}", "]".
PunctClass == {".", ",", "!", "?", ":", "\"", "'", "(", ")", "\\", "["}
PunctTail == <<"{", "}", "]">>

PunctMatchAt(str, i) ==
    /\ i + 3 <= Len(str)
    /\ str[i] \in PunctClass
    /\ SubSeq(str, i + 1, i + 3) = PunctTail

\* .replace(/.../g, ''): every non-overlapping match, left to right, is removed
RECURSIVE RemovePunctFrom(_, _)
RemovePunctFrom(str, i) ==
    IF i > Len(str) THEN <<>>
    ELSE IF PunctMatchAt(str, i) THEN RemovePunctFrom(str, i + 4)
    ELSE <<str[i]>> \o RemovePunctFrom(str, i + 1)

RemovePunctuation(str) == RemovePunctFrom(str, 1)

\* .replace(/\s+/g, ' '): every run of whitespace becomes one space
RECURSIVE CollapseFrom(_, _)
CollapseFrom(str, i) ==
    IF i > Len(str) THEN <<>>
    ELSE IF str[i] \in Whitespace
         THEN IF i > 1 /\ str[i - 1] \in Whitespace
              THEN CollapseFrom(str, i + 1)
              ELSE <<" ">> \o CollapseFrom(str, i + 1)
         ELSE <<str[i]>> \o CollapseFrom(str, i + 1)

CollapseWhitespace(str) == CollapseFrom(str, 1)

StartsWith(str, prefix) ==
    Len(str) >= Len(prefix) /\ SubSeq(str, 1, Len(prefix)) = prefix

ArticleTHE == <<"T","H","E"," ">>
ArticleA == <<"A"," ">>
ArticleAN == <<"A","N"," ">>

\* .replace(/^(THE |A |AN )/, ''): the first alternative that matches at the
\* start of the string is removed, once
StripArticle(str) ==
    IF StartsWith(str, ArticleTHE) THEN SubSeq(str, Len(ArticleTHE) + 1, Len(str))
    ELSE IF StartsWith(str, ArticleA) THEN SubSeq(str, Len(ArticleA) + 1, Len(str))
    ELSE IF StartsWith(str, ArticleAN) THEN SubSeq(str, Len(ArticleAN) + 1, Len(str))
    ELSE str

\* normalize(s), before its last step
BeforeArticle(str) ==
    CollapseWhitespace(RemovePunctuation(ReplaceHyphens(ToUpperCase(Trim(str)))))

normalize(str) == StripArticle(BeforeArticle(str))

\* answersArray.some(a => normalize(a) === u)
RECURSIVE SomeNormalEquals(_, _, _)
SomeNormalEquals(arr, u, i) ==
    IF i > Len(arr) THEN FALSE
    ELSE IF normalize(arr[i]) = u THEN TRUE
    ELSE SomeNormalEquals(arr, u, i + 1)

isCorrect(input, arr) == SomeNormalEquals(arr, normalize(input), 1)

(***************************************************************************)
(* parser.js: splitOnUnescapedSemicolons                                   *)
(***************************************************************************)
\* The while loop of splitOnUnescapedSemicolons from index i on, with the
\* field under construction and the fields finished so far; after the loop
\* the last field is pushed.
RECURSIVE SplitFrom(_, _, _, _)
SplitFrom(ln, i, currentField, done) ==
    IF i > Len(ln) THEN Append(done, currentField)
    ELSE IF ln[i] = "\\" /\ i < Len(ln) /\ ln[i + 1] = ";"
         THEN SplitFrom(ln, i + 2, Append(currentField, ";"), done)
    ELSE IF ln[i] = "\\" /\ i < Len(ln) /\ ln[i + 1] = "\\"
         THEN SplitFrom(ln, i + 2, Append(currentField, "\\"), done)
    ELSE IF ln[i] = ";"
         THEN SplitFrom(ln, i + 1, <<>>, Append(done, currentField))
    ELSE SplitFrom(ln, i + 1, Append(currentField, ln[i]), done)

\* A splitter that drops a trailing empty field
splitDroppingEmptyLast(ln) ==
    LET all == SplitFrom(ln, 1, <<>>, <<>>)
    IN IF Len(all) > 1 /\ all[Len(all)] = <<>>
       THEN SubSeq(all, 1, Len(all) - 1)
       ELSE all

splitOnUnescapedSemicolons(ln) == SplitFrom(ln, 1, <<>>, <<>>)

(***************************************************************************)
(* parser.js: JSON.parse of the answers field                              *)
(***************************************************************************)
\* JSON values: a string with its characters, an array with its items, a
\* number, or one of the literals null, true, false
JsonString(chars) == [type |-> "string", chars |-> chars, items |-> <<>>]
JsonArray(items) == [type |-> "array", chars |-> <<>>, items |-> items]
JsonOther(type) == [type |-> type, chars |-> <<>>, items |-> <<>>]

JsonWhitespace == {" ", "\t", "\n", "\r"}
JsonDigits == {"0", "1", "2", "3", "4", "5", "6", "7", "8", "9"}
JsonLiterals == { <<"n","u","l","l">>, <<"t","r","u","e">>, <<"f","a","l","s","e">> }

\* the outcome of parsing one value: the value and the position after it,
\* or a SyntaxError
JsonFail == [ok |-> FALSE, value |-> JsonOther("none"), next |-> 0]
JsonOk(value, next) == [ok |-> TRUE, value |-> value, next |-> next]

RECURSIVE SkipJsonWhitespace(_, _)
SkipJsonWhitespace(text, i) ==
    IF i <= Len(text) /\ text[i] \in JsonWhitespace
    THEN SkipJsonWhitespace(text, i + 1)
    ELSE i

RECURSIVE SkipJsonDigits(_, _)
SkipJsonDigits(text, i) ==
    IF i <= Len(text) /\ text[i] \in JsonDigits THEN SkipJsonDigits(text, i + 1) ELSE i

\* the characters of a JSON string from position i (after the opening
\* quote) on; of the escapes, \" \\ \/ and \t are modelled
RECURSIVE ParseJsonString(_, _, _)
ParseJsonString(text, i, acc) ==
    IF i > Len(text) THEN JsonFail
    ELSE IF text[i] = "\"" THEN JsonOk(JsonString(acc), i + 1)
    ELSE IF text[i] = "\\"
         THEN IF i < Len(text) /\ text[i + 1] \in {"\"", "\\", "/"}
              THEN ParseJsonString(text, i + 2, Append(acc, text[i + 1]))
              ELSE IF i < Len(text) /\ text[i + 1] = "t"
              THEN ParseJsonString(text, i + 2, Append(acc, "\t"))
              ELSE JsonFail
    ELSE IF text[i] \in {"\t", "\n", "\r"} THEN JsonFail
    ELSE ParseJsonString(text, i + 1, Append(acc, text[i]))

RECURSIVE ParseJsonValue(_, _)
RECURSIVE ParseJsonElements(_, _, _)

\* the elements of an array from position i on, after "[" or ","
ParseJsonElements(text, i, items) ==
    LET v == ParseJsonValue(text, i)
        k == SkipJsonWhitespace(text, v.next)
    IN IF ~v.ok \/ k > Len(text) THEN JsonFail
       ELSE IF text[k] = "," THEN ParseJsonElements(text, k + 1, Append(items, v.value))
       ELSE IF text[k] = "]" THEN JsonOk(JsonArray(Append(items, v.value)), k + 1)
       ELSE JsonFail

ParseJsonValue(text, i) ==
    LET j == SkipJsonWhitespace(text, i)
    IN IF j > Len(text) THEN JsonFail
       ELSE IF text[j] = "\"" THEN ParseJsonString(text, j + 1, <<>>)
       ELSE IF text[j] = "["
            THEN LET k == SkipJsonWhitespace(text, j + 1)
                 IN IF k <= Len(text) /\ text[k] = "]"
                    THEN JsonOk(JsonArray(<<>>), k + 1)
                    ELSE ParseJsonElements(text, j + 1, <<>>)
       ELSE IF text[j] = "0" THEN JsonOk(JsonOther("number"), j + 1)
       ELSE IF text[j] \in JsonDigits
            THEN JsonOk(JsonOther("number"), SkipJsonDigits(text, j))
       ELSE IF \E lit \in JsonLiterals :
                  j + Len(lit) - 1 <= Len(text) /\ SubSeq(text, j, j + Len(lit) - 1) = lit
            THEN LET lit == CHOOSE l \in JsonLiterals :
                              /\ j + Len(l) - 1 <= Len(text)
                              /\ SubSeq(text, j, j + Len(l) - 1) = l
                 IN JsonOk(JsonOther(IF lit = <<"n","u","l","l">> THEN "null" ELSE "boolean"),
                           j + Len(lit))
       ELSE JsonFail

\* JSON.parse(text): the value, or ok = FALSE where it throws a SyntaxError
JSONParse(text) ==
    LET v == ParseJsonValue(text, 1)
    IN IF v.ok /\ SkipJsonWhitespace(text, v.next) > Len(text) THEN v ELSE JsonFail

(***************************************************************************)
(* parser.js: parseQuestionLine and parseQuestionBank                      *)
(***************************************************************************)
\* isValidLevel
isValidLevel(level) ==
    level \in { <<"F","r","e","s","h","m","a","n">>,
                <<"J","u","n","i","o","r"," ","V","a","r","s","i","t","y">>,
                <<"V","a","r","s","i","t","y">> }

\* str.split(sep) for a one-character separator
RECURSIVE SplitOnFrom(_, _, _, _)
SplitOnFrom(str, sep, i, done) ==
    LET found == { k \in i..Len(str) : str[k] = sep }
    IN IF found = {} THEN Append(done, SubSeq(str, i, Len(str)))
       ELSE LET next == CHOOSE k \in found : \A m \in found : k <= m
            IN SplitOnFrom(str, sep, next + 1, Append(done, SubSeq(str, i, next - 1)))

SplitOn(str, sep) == SplitOnFrom(str, sep, 1, <<>>)

\* A catch block that reports the trimmed line
ParseError_TrimmedLine(fname, num, reason, rawLine) ==
    [error |-> TRUE, filename |-> fname, line |-> num, reason |-> reason,
     rawLine |-> Trim(rawLine)]

\* the object the catch block of parseQuestionLine returns; reason is
\* error.message, kept as the pieces the message is put together from
ParseError(fname, num, reason, rawLine) ==
    [error |-> TRUE, filename |-> fname, line |-> num, reason |-> reason, rawLine |-> rawLine]

\* An element check that does not look at the trimmed text
AllStrings(items) ==
    \A k \in 1..Len(items) : items[k].type = "string" /\ items[k].chars # <<>>

\* answers.every(a => typeof a === 'string' && a.trim())
AllNonEmptyStrings(items) ==
    \A k \in 1..Len(items) : items[k].type = "string" /\ Trim(items[k].chars) # <<>>

\* A parseQuestionLine that validates the author before the level
parseQuestionLine_AuthorBeforeLevel(ln, fname, num) ==
    IF Trim(ln) = <<>> THEN [null |-> TRUE]
    ELSE
    LET flds == splitOnUnescapedSemicolons(ln)
    IN IF Len(flds) # 5
       THEN ParseError(fname, num, <<"Expected 5 fields, got ", Len(flds)>>, ln)
       ELSE
       LET category == flds[1]
           question == flds[2]
           level == flds[4]
           author == flds[5]
           json == JSONParse(flds[3])
           answers == json.value
           subjectParts == SplitOn(category, ">")
       IN IF Trim(category) = <<>>
          THEN ParseError(fname, num, <<"Category cannot be empty">>, ln)
          ELSE IF Trim(question) = <<>>
          THEN ParseError(fname, num, <<"Question cannot be empty">>, ln)
          ELSE IF ~json.ok
          THEN ParseError(fname, num,
                          <<"Invalid JSON in answers field: ", "jsonError.message">>, ln)
          ELSE IF answers.type # "array" \/ Len(answers.items) = 0
          THEN ParseError(fname, num, <<"Answers must be a non-empty array">>, ln)
          ELSE IF ~AllNonEmptyStrings(answers.items)
          THEN ParseError(fname, num, <<"All answers must be non-empty strings">>, ln)
          ELSE IF Trim(author) = <<>>
          THEN ParseError(fname, num, <<"Author cannot be empty">>, ln)
          ELSE IF ~isValidLevel(level)
          THEN ParseError(fname, num, <<"Unknown level: ", level>>, ln)
          ELSE [error |-> FALSE,
                category |-> Trim(category),
                subjectBroad |-> Trim(subjectParts[1]),
                subjectSpecific |-> Trim(IF Len(subjectParts) > 1 THEN subjectParts[2]
                                         ELSE category),
                question |-> Trim(question),
                answers |-> [k \in 1..Len(answers.items) |-> Trim(answers.items[k].chars)],
                level |-> Trim(level),
                author |-> Trim(author)]

\* the null parseQuestionLine returns for a line it skips
NullResult == [null |-> TRUE]

\* parseQuestionLine: null for a skipped line, a ParseError, or the
\* question object (its id, a hash of the content, is left out)
parseQuestionLine(ln, fname, num) ==
    IF Trim(ln) = <<>> THEN NullResult
    ELSE
    LET flds == splitOnUnescapedSemicolons(ln)
    IN IF Len(flds) # 5
       THEN ParseError(fname, num, <<"Expected 5 fields, got ", Len(flds)>>, ln)
       ELSE
       LET category == flds[1]
           question == flds[2]
           answersJson == flds[3]
           level == flds[4]
           author == flds[5]
           json == JSONParse(answersJson)
           answers == json.value
           subjectParts == SplitOn(category, ">")
           subjectBroad == subjectParts[1]
           subjectSpecific == IF Len(subjectParts) > 1 THEN subjectParts[2] ELSE category
       IN IF Trim(category) = <<>>
          THEN ParseError(fname, num, <<"Category cannot be empty">>, ln)
          ELSE IF Trim(question) = <<>>
          THEN ParseError(fname, num, <<"Question cannot be empty">>, ln)
          ELSE IF ~json.ok
          THEN ParseError(fname, num,
                          <<"Invalid JSON in answers field: ", "jsonError.message">>, ln)
          ELSE IF answers.type # "array" \/ Len(answers.items) = 0
          THEN ParseError(fname, num, <<"Answers must be a non-empty array">>, ln)
          ELSE IF ~AllNonEmptyStrings(answers.items)
          THEN ParseError(fname, num, <<"All answers must be non-empty strings">>, ln)
          ELSE IF ~isValidLevel(level)
          THEN ParseError(fname, num, <<"Unknown level: ", level>>, ln)
          ELSE IF Trim(author) = <<>>
          THEN ParseError(fname, num, <<"Author cannot be empty">>, ln)
          ELSE [error |-> FALSE,
                category |-> Trim(category),
                subjectBroad |-> Trim(subjectBroad),
                subjectSpecific |-> Trim(subjectSpecific),
                question |-> Trim(question),
                answers |-> [k \in 1..Len(answers.items) |-> Trim(answers.items[k].chars)],
                level |-> Trim(level),
                author |-> Trim(author)]

\* A loop over the lines that ends at the first malformed line
RECURSIVE ParseLinesFrom_StopAtError(_, _, _, _, _)
ParseLinesFrom_StopAtError(lines, i, fname, questionsSoFar, errorsSoFar) ==
    IF i > Len(lines) THEN [questions |-> questionsSoFar, errors |-> errorsSoFar]
    ELSE LET result == parseQuestionLine(lines[i], fname, i)
         IN IF result = NullResult
            THEN ParseLinesFrom_StopAtError(lines, i + 1, fname, questionsSoFar, errorsSoFar)
            ELSE IF result.error
            THEN [questions |-> questionsSoFar, errors |-> Append(errorsSoFar, result)]
            ELSE ParseLinesFrom_StopAtError(lines, i + 1, fname,
                                            Append(questionsSoFar, result), errorsSoFar)

\* lines.forEach of parseQuestionBank from (1-based) position i on, with the
\* questions and errors pushed so far
RECURSIVE ParseLinesFrom(_, _, _, _, _)
ParseLinesFrom(lines, i, fname, questionsSoFar, errorsSoFar) ==
    IF i > Len(lines) THEN [questions |-> questionsSoFar, errors |-> errorsSoFar]
    ELSE LET result == parseQuestionLine(lines[i], fname, i)
         IN IF result = NullResult
            THEN ParseLinesFrom(lines, i + 1, fname, questionsSoFar, errorsSoFar)
            ELSE IF result.error
            THEN ParseLinesFrom(lines, i + 1, fname, questionsSoFar,
                                Append(errorsSoFar, result))
            ELSE ParseLinesFrom(lines, i + 1, fname, Append(questionsSoFar, result),
                                errorsSoFar)

\* A parseQuestionBank that counts only the lines that gave a result
parseQuestionBank_CountsResults(text, fname) ==
    LET lines == SplitOn(text, "\n")
        parsed == ParseLinesFrom(lines, 1, fname, <<>>, <<>>)
    IN [questions |-> parsed.questions,
        errors |-> parsed.errors,
        totalLines |-> Len(parsed.questions) + Len(parsed.errors),
        validQuestions |-> Len(parsed.questions),
        errorCount |-> Len(parsed.errors)]

parseQuestionBank(text, fname) ==
    LET lines == SplitOn(text, "\n")
        parsed == ParseLinesFrom(lines, 1, fname, <<>>, <<>>)
    IN [questions |-> parsed.questions,
        errors |-> parsed.errors,
        totalLines |-> Len(lines),
        validQuestions |-> Len(parsed.questions),
        errorCount |-> Len(parsed.errors)]

(***************************************************************************)
(* app.js: constants, question pool and filters                            *)
(***************************************************************************)
MIN_TIMER_VALUE == 3
MAX_TIMER_VALUE == 60

MaxSlider == 3          \* largest value the timer slider is moved to
MaxBank == 2            \* records in the bank file
MaxOvershoot == 1       \* advance requests followed after the session completed

Null == 0

Levels == {"Freshman", "Junior Varsity", "Varsity"}

\* values of the level radios; "" is the "any level" radio
LevelValues == {""} \cup Levels

\* values of the subject checkboxes of the setup screen
CheckboxValues == {"Math>Calculus", "Science>Biological Science"}

\* the .subject-group elements, each with its checkboxes
SubjectGroups == { {"Math>Calculus"}, {"Science>Biological Science"} }

\* Records as parseQuestionLine builds them; words is the number of
\* space-separated words of the question text.
\* subjectSpecific is the part of category between its first and second '>'
SubjectSpecificOf(c) ==
    CASE c = "Math>Calculus" -> "Calculus"
      [] c = "Science>Biological Science" -> "Biological Science"
      [] c = "Humanities>European History" -> "European History"
      [] c = "Computer Science>constructor" -> "constructor"
      [] OTHER -> c

Question(c, l, w) ==
    [category |-> c, subjectSpecific |-> SubjectSpecificOf(c), level |-> l,
     answers |-> << <<"x">> >>, words |-> w]

QuestionUniverse ==
    { Question("Math>Calculus", "Freshman", 2),
      Question("Math>Calculus", "Varsity", 1),
      Question("Science>Biological Science", "Freshman", 2),
      Question("Humanities>European History", "Junior Varsity", 2) }

\* bank files of at most MaxBank records
Banks == UNION { [1..n -> QuestionUniverse] : n \in 0..MaxBank }

\* the bank files the practice sessions are run on
SessionBanks ==
    { <<>>,
      << Question("Math>Calculus", "Varsity", 1) >>,
      << Question("Humanities>European History", "Junior Varsity", 2),
         Question("Science>Biological Science", "Freshman", 2) >> }

\* what the user may have typed into #answer-input
AnswerInputs == { <<>>, <<" ">>, <<" ", "X">>, <<"y">> }

SliderValues == { v \in MIN_TIMER_VALUE..MAX_TIMER_VALUE : v <= MaxSlider }

NoAnswers == [i \in {} |-> Null]

\* body of the filter callback of filterQuestions
QuestionMatches(q, selectedSubjects, level) ==
    LET subjectMatch == selectedSubjects = {} \/ q.category \in selectedSubjects
        levelMatch == level = "" \/ q.level = level
    IN subjectMatch /\ levelMatch

\* appState.questions.filter(...) of filterQuestions
RECURSIVE FilterFrom(_, _, _, _)
FilterFrom(qs, i, selectedSubjects, level) ==
    IF i > Len(qs) THEN <<>>
    ELSE IF QuestionMatches(qs[i], selectedSubjects, level)
         THEN <<qs[i]>> \o FilterFrom(qs, i + 1, selectedSubjects, level)
         ELSE FilterFrom(qs, i + 1, selectedSubjects, level)

Filtered(qs, selectedSubjects, level) == FilterFrom(qs, 1, selectedSubjects, level)

\* a swap that writes one side only (mutant)
Swap_Overwrite(arr, i, j) == [arr EXCEPT ![i] = arr[j]]

Swap(arr, i, j) == [arr EXCEPT ![i] = arr[j], ![j] = arr[i]]

\* shuffleArray: the loop from (1-based) position i down to 2; the random
\* index j is any position from 1 to i.  The set of arrays it can leave.
RECURSIVE ShuffleFrom(_, _)
ShuffleFrom(arr, i) ==
    IF i <= 1 THEN {arr}
    ELSE UNION { ShuffleFrom(Swap(arr, i, j), i - 1) : j \in 1..i }

shuffleArray(arr) == ShuffleFrom(arr, Len(arr))

\* the checkboxes selectAllSubjects / selectAllAvailableSubjects leave checked
SelectAllResult(chk, dis) == chk \cup (CheckboxValues \ dis)

\* calculateStats
RECURSIVE CountWhere(_, _, _)
CountWhere(ua, idxs, outcomes) ==
    IF idxs = {} THEN 0
    ELSE LET i == CHOOSE k \in idxs : TRUE
         IN (IF ua[i].correctness \in outcomes THEN 1 ELSE 0)
            + CountWhere(ua, idxs \ {i}, outcomes)

calculateStats(ua) ==
    [correct |-> CountWhere(ua, DOMAIN ua, {"Correct"}),
     incorrect |-> CountWhere(ua, DOMAIN ua, {"Incorrect", "Timeout"})]

\* The pairs <<correct, total>>, total below 200, for which 100 * correct /
\* total lies on a half and the double (correct / total) * 100 lies below
\* it: the quotient is rounded to 53 bits before it is multiplied by 100
\* (23 / 40 * 100 is 57.49999999999999)
HalvesBelow == { <<23, 40>>, <<46, 80>>, <<69, 120>>, <<92, 160>> }

\* Math.round((correct / total) * 100), and 0 when total is 0; Math.round
\* takes a half up
Percentage(correct, total) ==
    IF total > 0
    THEN IF <<correct, total>> \in HalvesBelow
         THEN (200 * correct + total) \div (2 * total) - 1
         ELSE (200 * correct + total) \div (2 * total)
    ELSE 0

\* updateStats(stats.correct, stats.incorrect, ...) and updateAccuracyDisplay:
\* the texts they leave for the answer log ua
StatsDisplayFor(ua) ==
    LET stats == calculateStats(ua)
    IN [correct |-> stats.correct,
        incorrect |-> stats.incorrect,
        accuracy |-> Percentage(stats.correct, stats.correct + stats.incorrect)]

(***************************************************************************)
(* The session summary (ui.js)                                             *)
(***************************************************************************)
\* the cell shown for an answer that is missing or empty
Placeholder == <<"EM DASH">>

\* Property names every object literal inherits from Object.prototype:
\* subjectStats[name] is truthy for them before anything is stored, so no
\* own entry is ever created under such a name
ObjectPrototypeKeys ==
    {"constructor", "__proto__", "hasOwnProperty", "isPrototypeOf",
     "propertyIsEnumerable", "toLocaleString", "toString", "valueOf",
     "__defineGetter__", "__defineSetter__", "__lookupGetter__", "__lookupSetter__"}

\* the summary screen before any session completed
NoSummary == [correct |-> 0, total |-> 0, percentage |-> 0, breakdown |-> <<>>, missed |-> <<>>]

\* indices (0-based) of the questions of qs the log ua holds outcome Correct for
CorrectIndices(qs, ua) ==
    {i \in 0..(Len(qs) - 1) : i \in DOMAIN ua /\ ua[i].correctness = "Correct"}

\* updateSubjectBreakdown: the entries of subjectStats it renders
updateSubjectBreakdown(qs, ua) ==
    LET own == {qs[k].subjectSpecific : k \in 1..Len(qs)} \ ObjectPrototypeKeys
    IN [subject \in own |->
            LET of == {i \in 0..(Len(qs) - 1) : qs[i + 1].subjectSpecific = subject}
                correct == Cardinality(of \cap CorrectIndices(qs, ua))
            IN [correct |-> correct,
                total |-> Cardinality(of),
                percentage |-> Percentage(correct, Cardinality(of))]]

\* the filter of updateMissedQuestionsTable
IsMissed(ua, i) == i \notin DOMAIN ua \/ ua[i].correctness # "Correct"

\* one row of the missed-questions table, for the question at index i
\* (0-based; the questions of a working set are distinct objects, so
\* questions.indexOf(question) is the question's own index)
MissedRow(qs, ua, i) ==
    LET question == qs[i + 1]
        recorded == i \in DOMAIN ua
    IN [index |-> i,
        subject |-> question.subjectSpecific,
        canonical |-> question.answers[1],
        answer |-> IF recorded /\ ua[i].answer # <<>> THEN ua[i].answer ELSE Placeholder,
        result |-> IF recorded THEN ua[i].correctness ELSE "Timeout"]

RECURSIVE MissedRowsFrom(_, _, _)
MissedRowsFrom(qs, ua, i) ==
    IF i >= Len(qs) THEN <<>>
    ELSE (IF IsMissed(ua, i) THEN <<MissedRow(qs, ua, i)>> ELSE <<>>)
         \o MissedRowsFrom(qs, ua, i + 1)

\* updateMissedQuestionsTable: the rows of the table, none when the
\* "No questions were missed!" paragraph is shown
updateMissedQuestionsTable(qs, ua) == MissedRowsFrom(qs, ua, 0)

\* showSummary({questions: qs, userAnswers: ua, correct: stats.correct,
\* total: qs.length}) as nextQuestion calls it
showSummary(qs, ua) ==
    LET stats == calculateStats(ua)
    IN [correct |-> stats.correct,
        total |-> Len(qs),
        percentage |-> Percentage(stats.correct, Len(qs)),
        breakdown |-> updateSubjectBreakdown(qs, ua),
        missed |-> updateMissedQuestionsTable(qs, ua)]

(***************************************************************************)
(* The clock and the Enter counter                                         *)
(***************************************************************************)
MaxClockSteps == 3      \* advances of the clock that are followed
PageLoadTime == 5000    \* Date.now() when the page has loaded
ClockStep == 500        \* ms between two readings of the clock
ENTER_WINDOW == 1000    \* ms after which the keydown listener resets the counter

\* no Enter press so far
NoEnter == [at |-> Null, role |-> "none", advanced |-> FALSE]

\* A window test that already resets at the limit
WindowElapsed_AtLimit(currentTime, last) == currentTime - last >= ENTER_WINDOW

\* currentTime - appState.lastEnterTime > 1000
WindowElapsed(currentTime, last) == currentTime - last > ENTER_WINDOW

\* A reset that leaves the counter as it is
resetEnterCounter_KeepsCounter ==
    [enterPressCount |-> enterPressCount, lastEnterTime |-> lastEnterTime]

\* resetEnterCounter: the values it leaves
resetEnterCounter == [enterPressCount |-> 0, lastEnterTime |-> 0]

(***************************************************************************)
(* State after construction: init() has run up to the fetch of the bank,   *)
(* and the timer slider stands at one of the modelled values               *)
(***************************************************************************)
AppInit ==
    /\ loadState = "loading"
    /\ questions = <<>>
    /\ checked = {}
    /\ disabled = {}
    /\ selectedLevel = ""
    /\ filteredQuestions = <<>>
    /\ currentQuestionIndex = 0
    /\ userAnswers = NoAnswers
    /\ timeAllocated \in SliderValues
    /\ timer = Null
    /\ intervals = {}
    /\ countdownText = 0
    /\ isPaused = FALSE
    /\ isSessionActive = FALSE
    /\ textRevealTimer = Null
    /\ reveals = {}
    /\ screen = "setup-screen"
    /\ lastStart = [result |-> "none", tries |-> {}]
    /\ enterPressCount = 0
    /\ lastEnterTime = 0
    /\ lastEnter = NoEnter
    /\ statsDisplay = [correct |-> 0, incorrect |-> 0, accuracy |-> 0]
    /\ summaryDisplay = NoSummary

NormIdle ==
    /\ userInput = <<>> /\ answersArray = <<>> /\ variation = "free"
    /\ normalized = <<>> /\ matched = FALSE /\ normPc = "idle"

SplitIdle == line = <<>> /\ fields = <<>> /\ splitPc = "idle"

ParseIdle ==
    /\ filename = "" /\ lineNumber = 0 /\ parsedLine = Null
    /\ content = <<>> /\ bankResult = Null /\ parsePc = "idle"

UiIdle == uiQuestions = <<>> /\ uiAnswers = <<>> /\ uiShown = NoSummary /\ uiPc = "idle"

\* the clock at page load; no code sets the disabled property of
\* #next-question
EnvInit == now = PageLoadTime /\ nextDisabled = FALSE

AppIdle == bank = <<>> /\ AppInit /\ EnvInit

Init ==
    /\ bank \in SessionBanks
    /\ AppInit
    /\ EnvInit
    /\ NormIdle
    /\ UiIdle
    /\ SplitIdle
    /\ ParseIdle

(***************************************************************************)
(* Timers                                                                  *)
(***************************************************************************)
\* setInterval returns an id that no live interval has
FreshId(ids) == CHOOSE n \in 1..(Cardinality(ids) + 1) : n \notin ids

IntervalIds(ivs) == { iv.id : iv \in ivs }

\* A clearInterval that cancels nothing
ClearInterval_CancelsNothing(ivs, id) == ivs

\* clearInterval(id) on the countdown intervals; clearing Null or a dead id
\* does nothing
ClearInterval(ivs, id) == { iv \in ivs : iv.id # id }

\* A startTimer that leaves the previous interval running
TimerAfterStart_KeepsPrevious(ivs, tm, allocated) ==
    LET id == FreshId(IntervalIds(ivs))
    IN [intervals |-> ivs \cup {[id |-> id, timeLeft |-> allocated, ticks |-> 0]},
        timer |-> id]

\* startTimer: the intervals and appState.timer it leaves
TimerAfterStart(ivs, tm, allocated) ==
    LET cleared == IF tm # Null THEN ClearInterval(ivs, tm) ELSE ivs
        id == FreshId(IntervalIds(cleared))
    IN [intervals |-> cleared \cup {[id |-> id, timeLeft |-> allocated, ticks |-> 0]},
        timer |-> id]

\* displayQuestion / startTextReveal: the reveal intervals and
\* appState.textRevealTimer they leave for a question
RevealAfterDisplay(rvs, rt, q) ==
    LET cleared == IF rt # Null THEN rvs \ {rt} ELSE rvs
        id == FreshId(cleared)
    IN IF q.words > 1
       THEN [reveals |-> cleared \cup {id}, textRevealTimer |-> id]
       ELSE [reveals |-> cleared, textRevealTimer |-> Null]

(***************************************************************************)
(* Loading the bank (loadQuestionBank, then initializeUI)                  *)
(***************************************************************************)
\* updateSubjectSelector: the checkboxes it disables
DisabledFor(qs) ==
    { c \in CheckboxValues : ~(\E i \in 1..Len(qs) : qs[i].category = c) }

LoadQuestionBank ==
    /\ loadState = "loading"
    /\ loadState' = "loaded"
    /\ questions' = bank
    /\ disabled' = DisabledFor(bank)
    /\ checked' = SelectAllResult(checked \ DisabledFor(bank), DisabledFor(bank))
    /\ UNCHANGED <<pureVars, envVars, summaryDisplay, keyVars, statsDisplay, bank, selectedLevel, sessionVars, timeAllocated, screen, lastStart>>

\* the fetch fails: loadQuestionBank rethrows and init() stops
LoadFails ==
    /\ loadState = "loading"
    /\ loadState' = "failed"
    /\ UNCHANGED <<pureVars, envVars, summaryDisplay, keyVars, statsDisplay, bank, filterVars, sessionVars, timeAllocated, screen, lastStart>>

(***************************************************************************)
(* Setup screen: filters and timer slider                                  *)
(***************************************************************************)
TimerSliderInput(value) ==
    /\ screen = "setup-screen"
    /\ timeAllocated' = value
    /\ UNCHANGED <<pureVars, envVars, summaryDisplay, keyVars, statsDisplay, bank, loadState, filterVars, sessionVars, screen, lastStart>>

ToggleCheckbox(c) ==
    /\ screen = "setup-screen"
    /\ c \notin disabled
    /\ checked' = IF c \in checked THEN checked \ {c} ELSE checked \cup {c}
    /\ UNCHANGED <<pureVars, envVars, summaryDisplay, keyVars, statsDisplay, bank, loadState, questions, disabled, selectedLevel, sessionVars,
                   timeAllocated, screen, lastStart>>

selectAllSubjects ==
    /\ screen = "setup-screen"
    /\ checked' = SelectAllResult(checked, disabled)
    /\ UNCHANGED <<pureVars, envVars, summaryDisplay, keyVars, statsDisplay, bank, loadState, questions, disabled, selectedLevel, sessionVars,
                   timeAllocated, screen, lastStart>>

clearAllSubjects ==
    /\ screen = "setup-screen"
    /\ checked' = {}
    /\ UNCHANGED <<pureVars, envVars, summaryDisplay, keyVars, statsDisplay, bank, loadState, questions, disabled, selectedLevel, sessionVars,
                   timeAllocated, screen, lastStart>>

handleSectionHeaderClick(group) ==
    /\ screen = "setup-screen"
    /\ LET allSelected == group \subseteq checked
       IN checked' = IF allSelected
                     THEN checked \ (group \ disabled)
                     ELSE checked \cup (group \ disabled)
    /\ UNCHANGED <<pureVars, envVars, summaryDisplay, keyVars, statsDisplay, bank, loadState, questions, disabled, selectedLevel, sessionVars,
                   timeAllocated, screen, lastStart>>

SelectLevel(level) ==
    /\ screen = "setup-screen"
    /\ selectedLevel' = level
    /\ UNCHANGED <<pureVars, envVars, summaryDisplay, keyVars, statsDisplay, bank, loadState, questions, checked, disabled, sessionVars,
                   timeAllocated, screen, lastStart>>

(***************************************************************************)
(* startPracticeSession                                                    *)
(***************************************************************************)
\* A filter expansion that never clears the level
FallbackPath_KeepLevel(qs, chk, dis, lvl) ==
    LET c0 == Len(Filtered(qs, chk, lvl))
        try1 == c0 = 0 /\ chk = {}
        chk1 == IF try1 THEN SelectAllResult(chk, dis) ELSE chk
        c1 == IF try1 THEN Len(Filtered(qs, chk1, lvl)) ELSE c0
        try3 == c0 = 0 /\ c1 = 0
        chk3 == IF try3 THEN SelectAllResult(chk1, dis) ELSE chk1
    IN [tries |-> (IF try1 THEN {1} ELSE {}) \cup (IF try3 THEN {3} ELSE {}),
        checked |-> chk3,
        level |-> lvl,
        selected |-> Filtered(qs, chk3, lvl)]

\* A filter expansion that selects all subjects whatever is selected
FallbackPath_SelectAllFirst(qs, chk, dis, lvl) ==
    LET c0 == Len(Filtered(qs, chk, lvl))
        try1 == c0 = 0
        chk1 == IF try1 THEN SelectAllResult(chk, dis) ELSE chk
        c1 == IF try1 THEN Len(Filtered(qs, chk1, lvl)) ELSE c0
        try2 == c0 = 0 /\ c1 = 0
        lvl2 == IF try2 THEN "" ELSE lvl
        c2 == IF try2 THEN Len(Filtered(qs, chk1, lvl2)) ELSE c1
        try3 == c0 = 0 /\ c2 = 0
        chk3 == IF try3 THEN SelectAllResult(chk1, dis) ELSE chk1
    IN [tries |-> (IF try1 THEN {1} ELSE {}) \cup (IF try2 THEN {2} ELSE {})
                  \cup (IF try3 THEN {3} ELSE {}),
        checked |-> chk3,
        level |-> lvl2,
        selected |-> Filtered(qs, chk3, lvl2)]

\* The filter expansion of startPracticeSession: which of the three tries it
\* makes, the checkboxes and level it leaves, and the questions the last
\* filterQuestions call selected (before shuffling).
FallbackPath(qs, chk, dis, lvl) ==
    LET c0 == Len(Filtered(qs, chk, lvl))
        try1 == c0 = 0 /\ chk = {}
        chk1 == IF try1 THEN SelectAllResult(chk, dis) ELSE chk
        c1 == IF try1 THEN Len(Filtered(qs, chk1, lvl)) ELSE c0
        try2 == c0 = 0 /\ c1 = 0
        lvl2 == IF try2 THEN "" ELSE lvl
        c2 == IF try2 THEN Len(Filtered(qs, chk1, lvl2)) ELSE c1
        try3 == c0 = 0 /\ c2 = 0
        chk3 == IF try3 THEN SelectAllResult(chk1, dis) ELSE chk1
    IN [tries |-> (IF try1 THEN {1} ELSE {}) \cup (IF try2 THEN {2} ELSE {})
                  \cup (IF try3 THEN {3} ELSE {}),
        checked |-> chk3,
        level |-> lvl2,
        selected |-> Filtered(qs, chk3, lvl2)]

\* An early return taken after the session state was initialised
StartExhausted_AfterInitialising(p) ==
    /\ filteredQuestions' = <<>>
    /\ currentQuestionIndex' = 0
    /\ userAnswers' = NoAnswers
    /\ isSessionActive' = TRUE
    /\ isPaused' = FALSE
    /\ lastStart' = [result |-> "exhausted", tries |-> p.tries]
    /\ UNCHANGED <<timer, intervals, countdownText, textRevealTimer, reveals, screen, keyVars>>

\* the early return: 'Unable to find any questions' is announced
StartExhausted(p) ==
    /\ filteredQuestions' = <<>>
    /\ lastStart' = [result |-> "exhausted", tries |-> p.tries]
    /\ UNCHANGED <<currentQuestionIndex, userAnswers, timer, intervals, countdownText,
                   isPaused, isSessionActive, textRevealTimer, reveals, screen, keyVars>>

\* A session start that leaves the cursor where it was
StartSession_KeepsCursor(p) ==
    /\ filteredQuestions' \in shuffleArray(p.selected)
    /\ currentQuestionIndex' = currentQuestionIndex
    /\ userAnswers' = NoAnswers
    /\ isSessionActive' = TRUE
    /\ isPaused' = FALSE
    /\ screen' = "practice-screen"
    /\ LET r == RevealAfterDisplay(reveals, textRevealTimer, filteredQuestions'[1])
           t == TimerAfterStart(intervals, timer, timeAllocated)
       IN /\ reveals' = r.reveals
          /\ textRevealTimer' = r.textRevealTimer
          /\ intervals' = t.intervals
          /\ timer' = t.timer
    /\ countdownText' = timeAllocated
    /\ enterPressCount' = resetEnterCounter.enterPressCount
    /\ lastEnterTime' = resetEnterCounter.lastEnterTime
    /\ lastEnter' = [lastEnter EXCEPT !.advanced = TRUE]
    /\ lastStart' = [result |-> "started", tries |-> p.tries]

\* "Initialize session state" and what follows it
StartSession(p) ==
    /\ filteredQuestions' \in shuffleArray(p.selected)
    /\ currentQuestionIndex' = 0
    /\ userAnswers' = NoAnswers
    /\ isSessionActive' = TRUE
    /\ isPaused' = FALSE
    /\ screen' = "practice-screen"
    /\ LET r == RevealAfterDisplay(reveals, textRevealTimer, filteredQuestions'[1])
           t == TimerAfterStart(intervals, timer, timeAllocated)
       IN /\ reveals' = r.reveals
          /\ textRevealTimer' = r.textRevealTimer
          /\ intervals' = t.intervals
          /\ timer' = t.timer
    /\ countdownText' = timeAllocated
    /\ enterPressCount' = resetEnterCounter.enterPressCount
    /\ lastEnterTime' = resetEnterCounter.lastEnterTime
    /\ lastEnter' = [lastEnter EXCEPT !.advanced = TRUE]
    /\ lastStart' = [result |-> "started", tries |-> p.tries]

\* the start button; loadQuestionBank keeps it disabled while the bank loads
startPracticeSession ==
    /\ screen = "setup-screen"
    /\ loadState # "loading"
    /\ LET p == FallbackPath(questions, checked, disabled, selectedLevel)
       IN /\ checked' = p.checked
          /\ selectedLevel' = p.level
          /\ IF p.selected = <<>> THEN StartExhausted(p) ELSE StartSession(p)
    /\ UNCHANGED <<pureVars, envVars, summaryDisplay, statsDisplay, bank, loadState, questions, disabled,
                   timeAllocated>>

(***************************************************************************)
(* The question countdown                                                  *)
(***************************************************************************)
AnswerRecord(text, outcome, elapsed) ==
    [answer |-> text, correctness |-> outcome, timeElapsed |-> elapsed]

\* A write that always lands on the first entry of the log
WriteAnswer_AtFirst(ua, index, record) ==
    [i \in DOMAIN ua \cup {0} |-> IF i = 0 THEN record ELSE ua[i]]

\* appState.userAnswers[index] = record
WriteAnswer(ua, index, record) ==
    [i \in DOMAIN ua \cup {index} |-> IF i = index THEN record ELSE ua[i]]

\* A timeout that records nothing
handleTimeout_RecordsNothing(ua, index, allocated) == ua

\* handleTimeout: the answer log it leaves
handleTimeout(ua, index, allocated) ==
    WriteAnswer(ua, index, AnswerRecord(<<>>, "Timeout", allocated))

\* A callback that counts down whether paused or not
TimerTick_IgnoresPause(iv) ==
    /\ iv \in intervals
    /\ LET left == iv.timeLeft - 1
           ticked == (intervals \ {iv})
                         \cup {[iv EXCEPT !.timeLeft = left, !.ticks = @ + 1]}
       IN IF left <= 0
          THEN /\ countdownText' = 0
               /\ intervals' = ClearInterval(ticked, timer)
               /\ timer' = Null
               /\ userAnswers' = handleTimeout(userAnswers, currentQuestionIndex,
                                               timeAllocated)
               /\ statsDisplay' = StatsDisplayFor(userAnswers')
          ELSE /\ countdownText' = left
               /\ intervals' = ticked
               /\ UNCHANGED <<timer, userAnswers, statsDisplay>>
    /\ UNCHANGED <<pureVars, envVars, summaryDisplay, keyVars, bank, loadState, filterVars, filteredQuestions,
                   currentQuestionIndex, isPaused, isSessionActive, textRevealTimer, reveals,
                   timeAllocated, screen, lastStart>>

\* one run of the callback startTimer gave to setInterval, for the interval iv
TimerTick(iv) ==
    /\ iv \in intervals
    /\ IF isPaused
       THEN UNCHANGED <<intervals, timer, countdownText, userAnswers, statsDisplay>>
       ELSE LET left == iv.timeLeft - 1
                ticked == (intervals \ {iv})
                              \cup {[iv EXCEPT !.timeLeft = left, !.ticks = @ + 1]}
            IN IF left <= 0
               THEN /\ countdownText' = 0
                    /\ intervals' = ClearInterval(ticked, timer)
                    /\ timer' = Null
                    /\ userAnswers' = handleTimeout(userAnswers, currentQuestionIndex,
                                                    timeAllocated)
                    /\ IF currentQuestionIndex + 1 > Len(filteredQuestions)
                       THEN \* currentQuestion is undefined: its .answers throws
                            UNCHANGED statsDisplay
                       ELSE statsDisplay' = StatsDisplayFor(userAnswers')
               ELSE /\ countdownText' = left
                    /\ intervals' = ticked
                    /\ UNCHANGED <<timer, userAnswers, statsDisplay>>
    /\ UNCHANGED <<pureVars, envVars, summaryDisplay, keyVars, bank, loadState, filterVars, filteredQuestions, currentQuestionIndex,
                   isPaused, isSessionActive, textRevealTimer, reveals, timeAllocated,
                   screen, lastStart>>

\* toggleTimerPause: the pause button, or the space key while a session is
\* active and a countdown is set
toggleTimerPause ==
    /\ \/ screen = "practice-screen"
       \/ isSessionActive /\ timer # Null
    /\ isPaused' = ~isPaused
    /\ UNCHANGED <<pureVars, envVars, summaryDisplay, keyVars, statsDisplay, bank, loadState, filterVars, filteredQuestions, currentQuestionIndex,
                   userAnswers, timer, intervals, countdownText, isSessionActive,
                   textRevealTimer, reveals, timeAllocated, screen, lastStart>>

(***************************************************************************)
(* submitAnswer                                                            *)
(***************************************************************************)
\* submitAnswer for the text input of #answer-input: what it leaves in
\* appState and on the display
SubmitAnswerBody(input) ==
    LET userAnswer == Trim(input)
        index == currentQuestionIndex
    IN IF userAnswer = <<>>
       THEN UNCHANGED <<timer, intervals, userAnswers, statsDisplay>>
       ELSE /\ timer' = Null
            /\ intervals' = IF timer # Null THEN ClearInterval(intervals, timer)
                            ELSE intervals
            /\ IF index + 1 > Len(filteredQuestions)
               THEN \* currentQuestion is undefined: its .answers throws
                    UNCHANGED <<userAnswers, statsDisplay>>
               ELSE LET currentQuestion == filteredQuestions[index + 1]
                        isAnswerCorrect == isCorrect(userAnswer, currentQuestion.answers)
                        timeLeft == countdownText
                        timeElapsed == timeAllocated - timeLeft
                    IN /\ userAnswers' =
                            WriteAnswer(userAnswers, index,
                                AnswerRecord(userAnswer,
                                    IF isAnswerCorrect THEN "Correct" ELSE "Incorrect",
                                    timeElapsed))
                       /\ statsDisplay' = StatsDisplayFor(userAnswers')

\* the submit button
submitAnswer(input) ==
    /\ screen = "practice-screen"
    /\ SubmitAnswerBody(input)
    /\ UNCHANGED <<pureVars, envVars, summaryDisplay, keyVars, bank, loadState, filterVars, filteredQuestions,
                   currentQuestionIndex, countdownText, isPaused, isSessionActive,
                   textRevealTimer, reveals, timeAllocated, screen, lastStart>>

(***************************************************************************)
(* nextQuestion, endSession, resetFilters                                  *)
(***************************************************************************)
\* endSession: both intervals cleared
EndSessionIntervals == IF timer # Null THEN ClearInterval(intervals, timer) ELSE intervals
EndSessionReveals == IF textRevealTimer # Null THEN reveals \ {textRevealTimer} ELSE reveals

\* nextQuestion stays within the session: it displays another question
AdvancesToNewQuestion == currentQuestionIndex + 1 < Len(filteredQuestions)

\* A session that completes on reaching its last question
PastLastQuestion_AtLast(index, qs) == index >= Len(qs) - 1

\* the incremented index is past the last question: the session is complete
PastLastQuestion(index, qs) == index >= Len(qs)

\* nextQuestion: what it leaves in appState, the counter of Enter presses
\* apart
NextQuestionBody ==
    /\ currentQuestionIndex' = currentQuestionIndex + 1
    /\ IF PastLastQuestion(currentQuestionIndex', filteredQuestions)
       THEN /\ isSessionActive' = FALSE
            /\ intervals' = EndSessionIntervals
            /\ timer' = Null
            /\ reveals' = EndSessionReveals
            /\ textRevealTimer' = Null
            /\ screen' = "summary-screen"
            /\ summaryDisplay' = showSummary(filteredQuestions, userAnswers)
            /\ UNCHANGED countdownText
       ELSE LET r == RevealAfterDisplay(reveals, textRevealTimer,
                                        filteredQuestions[currentQuestionIndex' + 1])
                t == TimerAfterStart(intervals, timer, timeAllocated)
            IN /\ reveals' = r.reveals
               /\ textRevealTimer' = r.textRevealTimer
               /\ intervals' = t.intervals
               /\ timer' = t.timer
               /\ countdownText' = timeAllocated
               /\ UNCHANGED <<isSessionActive, screen, summaryDisplay>>

\* An advance that also resumes a paused timer
nextQuestion_Resumes ==
    /\ \/ screen = "practice-screen"
       \/ isSessionActive
    /\ ~nextDisabled
    /\ currentQuestionIndex < Len(filteredQuestions) + MaxOvershoot
    /\ NextQuestionBody
    /\ IF AdvancesToNewQuestion
       THEN /\ enterPressCount' = resetEnterCounter.enterPressCount
            /\ lastEnterTime' = resetEnterCounter.lastEnterTime
            /\ lastEnter' = [lastEnter EXCEPT !.advanced = TRUE]
       ELSE UNCHANGED keyVars
    /\ isPaused' = FALSE
    /\ UNCHANGED <<pureVars, envVars, statsDisplay, bank, loadState, filterVars,
                   filteredQuestions, userAnswers, timeAllocated, lastStart>>

\* the next button, or the N key while a session is active
nextQuestion ==
    /\ \/ screen = "practice-screen"
       \/ isSessionActive
    /\ ~nextDisabled
    /\ currentQuestionIndex < Len(filteredQuestions) + MaxOvershoot
    /\ NextQuestionBody
    /\ IF AdvancesToNewQuestion
       THEN /\ enterPressCount' = resetEnterCounter.enterPressCount
            /\ lastEnterTime' = resetEnterCounter.lastEnterTime
            /\ lastEnter' = [lastEnter EXCEPT !.advanced = TRUE]
       ELSE UNCHANGED keyVars
    /\ UNCHANGED <<pureVars, envVars, statsDisplay, bank, loadState, filterVars,
                   filteredQuestions, userAnswers, isPaused, timeAllocated, lastStart>>

(***************************************************************************)
(* Enter in the answer input, and the passing of time                      *)
(***************************************************************************)
\* history: an Enter press now opens a new count, because none came before
\* it in this count, the window has elapsed, or the session started or
\* advanced to a new question since the last press
OpensCount ==
    \/ lastEnter.role # "first"
    \/ lastEnter.advanced
    \/ now - lastEnter.at > ENTER_WINDOW

\* the keydown listener of #answer-input for e.key === 'Enter'
EnterKey(input) ==
    /\ screen = "practice-screen"
    /\ LET count == (IF WindowElapsed(now, lastEnterTime) THEN 0 ELSE enterPressCount) + 1
       IN IF count = 1
          THEN /\ SubmitAnswerBody(input)
               /\ enterPressCount' = count
               /\ lastEnterTime' = now
               /\ UNCHANGED <<currentQuestionIndex, countdownText, isSessionActive,
                              textRevealTimer, reveals, screen, summaryDisplay>>
          ELSE IF count = 2
          THEN IF ~nextDisabled
               THEN /\ currentQuestionIndex < Len(filteredQuestions) + MaxOvershoot
                    /\ NextQuestionBody
                    /\ enterPressCount' = 0
                    /\ lastEnterTime' = IF AdvancesToNewQuestion
                                        THEN resetEnterCounter.lastEnterTime
                                        ELSE now
                    /\ UNCHANGED <<userAnswers, statsDisplay>>
               ELSE /\ enterPressCount' = 0
                    /\ lastEnterTime' = now
                    /\ UNCHANGED <<currentQuestionIndex, userAnswers, timer, intervals,
                                   countdownText, isSessionActive, textRevealTimer, reveals,
                                   screen, statsDisplay, summaryDisplay>>
          ELSE /\ enterPressCount' = count
               /\ lastEnterTime' = now
               /\ UNCHANGED <<currentQuestionIndex, userAnswers, timer, intervals,
                              countdownText, isSessionActive, textRevealTimer, reveals,
                              screen, statsDisplay, summaryDisplay>>
    /\ lastEnter' = [at |-> now,
                     role |-> IF OpensCount THEN "first" ELSE "second",
                     advanced |-> FALSE]
    /\ UNCHANGED <<pureVars, envVars, bank, loadState, filterVars, filteredQuestions, isPaused,
                   timeAllocated, lastStart>>

\* time passes
ClockAdvance ==
    /\ now < PageLoadTime + MaxClockSteps * ClockStep
    /\ now' = now + ClockStep
    /\ UNCHANGED <<pureVars, nextDisabled, keyVars, statsDisplay, summaryDisplay, bank, loadState, filterVars,
                   sessionVars, timeAllocated, screen, lastStart>>

\* back-to-setup, confirmed: endSession, then the setup screen
BackToSetup ==
    /\ screen = "practice-screen"
    /\ isSessionActive' = FALSE
    /\ intervals' = EndSessionIntervals
    /\ timer' = Null
    /\ reveals' = EndSessionReveals
    /\ textRevealTimer' = Null
    /\ screen' = "setup-screen"
    /\ UNCHANGED <<pureVars, envVars, summaryDisplay, keyVars, statsDisplay, bank, loadState, filterVars, filteredQuestions, currentQuestionIndex,
                   userAnswers, countdownText, isPaused, timeAllocated, lastStart>>

\* resetFilters: the reset-filters button of the setup screen, the
\* reset-filters-practice button of the practice screen, or startNewSession
\* on the summary screen
resetFilters ==
    /\ checked' = SelectAllResult(checked, disabled)
    /\ selectedLevel' = ""
    /\ screen' = "setup-screen"
    /\ UNCHANGED <<pureVars, envVars, summaryDisplay, keyVars, statsDisplay, bank, loadState, questions, disabled, sessionVars, timeAllocated,
                   lastStart>>

\* back-to-practice on the summary screen
BackToPractice ==
    /\ screen = "summary-screen"
    /\ screen' = "practice-screen"
    /\ UNCHANGED <<pureVars, envVars, summaryDisplay, keyVars, statsDisplay, bank, loadState, filterVars, sessionVars, timeAllocated, lastStart>>

(***************************************************************************)
(* The text-reveal interval (ui.js)                                        *)
(***************************************************************************)
\* revealNextWord when no word is left, or skipReveal on a click on the
\* question text: the interval appState.textRevealTimer names is cleared
StopTextReveal ==
    /\ reveals # {}
    /\ textRevealTimer # Null
    /\ reveals' = reveals \ {textRevealTimer}
    /\ textRevealTimer' = Null
    /\ UNCHANGED <<pureVars, envVars, summaryDisplay, keyVars, statsDisplay, bank, loadState, filterVars, filteredQuestions, currentQuestionIndex,
                   userAnswers, timer, intervals, countdownText, isPaused, isSessionActive,
                   timeAllocated, screen, lastStart>>

Next ==
    \/ LoadQuestionBank
    \/ LoadFails
    \/ \E v \in SliderValues : TimerSliderInput(v)
    \/ \E c \in CheckboxValues : ToggleCheckbox(c)
    \/ selectAllSubjects
    \/ clearAllSubjects
    \/ \E g \in SubjectGroups : handleSectionHeaderClick(g)
    \/ \E l \in LevelValues : SelectLevel(l)
    \/ startPracticeSession
    \/ \E iv \in intervals : TimerTick(iv)
    \/ toggleTimerPause
    \/ \E input \in AnswerInputs : submitAnswer(input)
    \/ nextQuestion
    \/ BackToSetup
    \/ resetFilters
    \/ BackToPractice
    \/ StopTextReveal

Spec == Init /\ [][Next]_vars

(***************************************************************************)
(* The filter controls and session start on every bank of at most MaxBank  *)
(* records.  The actions left out change none of loadState, questions,     *)
(* checked, disabled and selectedLevel.                                    *)
(***************************************************************************)
InitFilter ==
    /\ bank \in Banks
    /\ AppInit
    /\ EnvInit
    /\ NormIdle
    /\ UiIdle
    /\ SplitIdle
    /\ ParseIdle

NextFilter ==
    \/ LoadQuestionBank
    \/ LoadFails
    \/ \E c \in CheckboxValues : ToggleCheckbox(c)
    \/ selectAllSubjects
    \/ clearAllSubjects
    \/ \E g \in SubjectGroups : handleSectionHeaderClick(g)
    \/ \E l \in LevelValues : SelectLevel(l)
    \/ startPracticeSession
    \/ BackToSetup
    \/ resetFilters

SpecFilter == InitFilter /\ [][NextFilter]_vars

(***************************************************************************)
(* Session engine: submission against timeout                              *)
(***************************************************************************)
\* a step that stays on the same question of the same session and keeps
\* its record
SameQuestion(i) ==
    /\ i = currentQuestionIndex
    /\ currentQuestionIndex' = currentQuestionIndex
    /\ i \in DOMAIN userAnswers
    /\ i \in DOMAIN userAnswers'

\* C1: a question's record comes from exactly one trigger: once a Timeout is
\* recorded for the current question no later step changes that record, and
\* once a submission is recorded no Timeout is recorded for that question.
C1_OneTriggerWins ==
    [][\A i \in DOMAIN userAnswers :
          SameQuestion(i) =>
              /\ userAnswers[i].correctness = "Timeout" => userAnswers'[i] = userAnswers[i]
              /\ userAnswers[i].correctness # "Timeout"
                    => userAnswers'[i].correctness # "Timeout"]_vars

\* the session is left: back-to-setup, the advance past the last question,
\* or resetFilters while the session is active
LeavesActiveSession ==
    /\ isSessionActive
    /\ \/ BackToSetup
       \/ nextQuestion /\ ~isSessionActive'
       \/ resetFilters /\ screen = "practice-screen"

\* C2: every step that leaves an active session (manual end, natural
\* completion, reset) cancels the question countdown and the text-reveal
\* interval, so that no timer callback is left to run.
C2_ExitCancelsIntervals ==
    [][LeavesActiveSession
          => /\ intervals' = {} /\ timer' = Null
             /\ reveals' = {} /\ textRevealTimer' = Null]_vars

\* C3: the record of the current question is written at most once before
\* the session advances: once it is stored, no step that stays on that
\* question stores a record there again.
C3_WrittenAtMostOnce ==
    [][(/\ currentQuestionIndex \in DOMAIN userAnswers
        /\ currentQuestionIndex' = currentQuestionIndex
        /\ currentQuestionIndex \in DOMAIN userAnswers')
          => /\ userAnswers' = userAnswers
             /\ ~(\E input \in AnswerInputs :
                    submitAnswer(input) /\ Trim(input) # <<>>)]_vars

(***************************************************************************)
(* Session engine: filter resolution                                       *)
(***************************************************************************)
\* the questions of the pool that a subject set and a level select
Selects(subjects, level) ==
    { i \in 1..Len(questions) :
        /\ subjects = {} \/ questions[i].category \in subjects
        /\ level = "" \/ questions[i].level = level }

Occurrences(seq, q) == Cardinality({ i \in 1..Len(seq) : seq[i] = q })

\* seq holds exactly the pool questions at the positions idxs, in some order
IsPermutationOfPool(seq, idxs) ==
    /\ Len(seq) = Cardinality(idxs)
    /\ \A q \in QuestionUniverse :
          Occurrences(seq, q) = Cardinality({ i \in idxs : questions[i] = q })

\* C4: with at least one question in the pool, startPracticeSession never
\* reports exhaustion, whatever the checkboxes and the level: it ends with a
\* non-empty working set and an active session.
C4_NeverExhausted ==
    [][(startPracticeSession /\ questions # <<>>)
          => /\ lastStart'.result = "started"
             /\ filteredQuestions' # <<>>
             /\ isSessionActive'
             /\ timer' # Null]_vars

\* a session just started through at least one fallback, on a non-empty pool
C4_Witness ==
    /\ lastStart.result = "started"
    /\ lastStart.tries # {}
    /\ questions # <<>>
    /\ isSessionActive
    /\ filteredQuestions # <<>>
    /\ currentQuestionIndex = 0
    /\ screen = "practice-screen"

\* C5: when the selection matches nothing, the fallbacks are tried in the
\* order (1) select all subjects, only if none is selected, (2) clear the
\* level, (3) select all available subjects, stopping at the first
\* non-empty result; with some subjects selected that have questions only
\* at other levels, the session starts with exactly the questions of the
\* selected subjects at any level.
C5_FallbackOrder ==
    [][startPracticeSession =>
        LET tries == lastStart'.tries
            all == SelectAllResult(checked, disabled)
        IN /\ (tries = {}) = (Selects(checked, selectedLevel) # {})
           /\ (1 \in tries) = (Selects(checked, selectedLevel) = {} /\ checked = {})
           /\ (2 \in tries) =
                 /\ Selects(checked, selectedLevel) = {}
                 /\ checked = {} => Selects(all, selectedLevel) = {}
           /\ (3 \in tries) =>
                 /\ 2 \in tries
                 /\ Selects(IF checked = {} THEN all ELSE checked, "") = {}
           /\ selectedLevel' = IF 2 \in tries THEN "" ELSE selectedLevel
           /\ (1 \notin tries /\ 3 \notin tries) => checked' = checked
           /\ (checked # {} /\ Selects(checked, selectedLevel) = {} /\ questions # <<>>)
                 => /\ tries = {2}
                    /\ lastStart'.result = "started"
                    /\ IsPermutationOfPool(filteredQuestions', Selects(checked, ""))
           /\ lastStart'.result = "started"
                 => IsPermutationOfPool(filteredQuestions',
                                        Selects(checked', selectedLevel'))]_vars

\* a session started by clearing the level only: the subjects that were
\* selected are still the selected ones and had nothing at the level chosen
C5_Witness ==
    /\ lastStart = [result |-> "started", tries |-> {2}]
    /\ checked # {}
    /\ selectedLevel = ""
    /\ \A i \in 1..Len(filteredQuestions) : filteredQuestions[i].category \in checked
    /\ currentQuestionIndex = 0
    /\ userAnswers = NoAnswers
    /\ screen = "practice-screen"

\* C6: when filter resolution is exhausted, startPracticeSession changes
\* none of active, currentIndex, the answer log, the working set, paused and
\* the question timer.
C6_ExhaustionChangesNothing ==
    [][(startPracticeSession /\ lastStart'.result = "exhausted")
          => UNCHANGED <<isSessionActive, currentQuestionIndex, userAnswers,
                         filteredQuestions, isPaused, timer, intervals, countdownText,
                         screen>>]_vars

\* exhaustion was reported after all three fallbacks, and no session runs
C6_Witness ==
    /\ lastStart.result = "exhausted"
    /\ 3 \in lastStart.tries
    /\ ~isSessionActive
    /\ timer = Null
    /\ screen = "setup-screen"

\* C19: when the selection matches at least one question, the working set
\* startPracticeSession builds is a permutation of exactly the pool
\* questions the selection matches (none dropped, none twice, no other
\* question), whichever indices the shuffle draws, and no fallback runs.
C19_WorkingSetIsPermutationOfMatches ==
    [][(startPracticeSession /\ Selects(checked, selectedLevel) # {})
          => /\ IsPermutationOfPool(filteredQuestions',
                                    Selects(checked, selectedLevel))
             /\ \A i \in 1..Len(filteredQuestions') :
                   QuestionMatches(filteredQuestions'[i], checked, selectedLevel)
             /\ lastStart' = [result |-> "started", tries |-> {}]]_vars

\* a session started without fallback on two different matching questions
\* that the shuffle has put in the other order
C19_Witness ==
    /\ lastStart = [result |-> "started", tries |-> {}]
    /\ Len(questions) = 2
    /\ questions[1] # questions[2]
    /\ Selects(checked, selectedLevel) = {1, 2}
    /\ filteredQuestions = << questions[2], questions[1] >>
    /\ currentQuestionIndex = 0
    /\ userAnswers = NoAnswers

(***************************************************************************)
(* Inputs of the normalizer harness                                        *)
(***************************************************************************)
Range(seq) == { seq[i] : i \in 1..Len(seq) }

RECURSIVE Flatten(_)
Flatten(seqs) == IF seqs = <<>> THEN <<>> ELSE Head(seqs) \o Flatten(Tail(seqs))

NormTokens ==
    { <<"t","h","e"," ">>, <<"a"," ">>, <<"x">>, <<" ">>,
      <<"-">>, <<".">>, <<".","{","}","]">> }

Strings ==
    { Flatten(ts) : ts \in UNION { [1..n -> NormTokens] : n \in 0..MaxTokens } }

Moscow == <<"M","o","s","c","o","w">>
TheMoscow == <<"t","h","e"," ","M","o","s","c","o","w">>
NewYork == <<"N","e","w"," ","Y","o","r","k">>
NewHyphenYork == <<"N","e","w","-","Y","o","r","k">>
Pluto == <<"P","l","u","t","o">>
MoscowDot == <<"M","o","s","c","o","w",".">>

\* Accepted answers are trimmed and non-empty (parser.js, parseQuestionLine)
AnswerStrings == ({ Trim(str) : str \in Strings } \ {<<>>}) \cup {Moscow, NewYork}

ToLowerChar(c) ==
    IF \E i \in 1..Len(Uppercase) : Uppercase[i] = c
    THEN Lowercase[CHOOSE i \in 1..Len(Uppercase) : Uppercase[i] = c]
    ELSE c

Variations == {"upper", "lower", "hyphen", "spaces", "the", "a", "an"}

RECURSIVE WidenFrom(_, _)
WidenFrom(str, i) ==
    IF i > Len(str) THEN <<>>
    ELSE IF str[i] \in Whitespace THEN <<str[i], " ">> \o WidenFrom(str, i + 1)
    ELSE <<str[i]>> \o WidenFrom(str, i + 1)

\* An input that differs from the answer a in the named way only
Vary(kind, a) ==
    CASE kind = "upper" -> ToUpperCase(a)
      [] kind = "lower" -> [i \in 1..Len(a) |-> ToLowerChar(a[i])]
      [] kind = "hyphen" -> [i \in 1..Len(a) |-> IF a[i] = " " THEN "-" ELSE a[i]]
      [] kind = "spaces" -> <<" ">> \o WidenFrom(a, 1) \o <<"\t">>
      [] kind = "the" -> <<"t","h","e"," ">> \o a
      [] kind = "a" -> <<"A"," ">> \o a
      [] kind = "an" -> <<"a","n"," ">> \o a

InitNorm ==
    /\ \/ /\ variation = "free"
          /\ userInput \in Strings \cup {TheMoscow, NewHyphenYork, Pluto, MoscowDot}
          /\ answersArray \in { <<Moscow>>, <<NewYork>>, <<<<"x">>>>,
                                <<Moscow, <<"x">>>> }
       \/ /\ variation \in Variations
          /\ \E a \in AnswerStrings :
                /\ userInput = Vary(variation, a)
                /\ answersArray \in { <<a>>, <<Moscow, a>> }
    /\ normalized = <<>>
    /\ matched = FALSE
    /\ normPc = "input"
    /\ SplitIdle
    /\ UiIdle
    /\ ParseIdle
    /\ AppIdle

\* One evaluation of normalize(userInput) and isCorrect(userInput, answersArray)
CheckAnswer ==
    /\ normPc = "input"
    /\ normalized' = normalize(userInput)
    /\ matched' = isCorrect(userInput, answersArray)
    /\ normPc' = "done"
    /\ UNCHANGED <<userInput, answersArray, variation, splitVars, parseVars, uiVars, appVars>>

NextNorm == CheckAnswer

SpecNorm == InitNorm /\ [][NextNorm]_vars

(***************************************************************************)
(* Answer matching: normalize and isCorrect                                *)
(***************************************************************************)
\* C7: normalize is idempotent: normalizing the normal form of any input
\* gives that normal form again.
C7_Idempotent ==
    normPc = "done" => normalize(normalized) = normalized

\* C8: normalize removes every character of the set . , ! ? : " ' ( ) [ ] { }
\* wherever it stands: no such character is left in the normal form, an
\* input and the same input without these characters have one normal form,
\* and 'Moscow.' matches the answer 'Moscow'.
C8_PunctuationRemoved ==
    LET Punctuation == {".", ",", "!", "?", ":", "\"", "'", "(", ")", "[", "]", "{", "}"}
        WithoutPunctuation(str) == SelectSeq(str, LAMBDA c : c \notin Punctuation)
    IN normPc = "done" =>
          /\ \A i \in 1..Len(normalized) : normalized[i] \notin Punctuation
          /\ normalized = normalize(WithoutPunctuation(userInput))
          /\ (userInput = MoscowDot /\ Moscow \in Range(answersArray)) => matched

\* C9: isCorrect is true iff the normal form of the input equals the normal
\* form of one of the answers; an input that differs from an accepted
\* answer only by letter case, hyphens for spaces, whitespace runs or one
\* leading article matches, and 'Pluto' does not match 'Moscow'.
C9_MatchesNormalForms ==
    normPc = "done" =>
        /\ matched = (\E i \in 1..Len(answersArray) :
                          normalize(userInput) = normalize(answersArray[i]))
        /\ variation \in Variations => matched
        /\ (userInput = TheMoscow /\ answersArray = <<Moscow>>) => matched
        /\ (userInput = NewHyphenYork /\ answersArray = <<NewYork>>) => matched
        /\ (userInput = Pluto /\ answersArray = <<Moscow>>) => ~matched

(***************************************************************************)
(* Inputs of the splitter harness                                          *)
(***************************************************************************)
LineChars == {"a", "b", ";", "\\"}

Lines == UNION { [1..n -> LineChars] : n \in 0..MaxLineLen }

\* the lines a\;b;c and x\\y;z
ExampleEscapedSemicolon == <<"a", "\\", ";", "b", ";", "c">>
ExampleEscapedBackslash == <<"x", "\\", "\\", "y", ";", "z">>

InitSplit ==
    /\ line \in Lines \cup {ExampleEscapedSemicolon, ExampleEscapedBackslash}
    /\ fields = <<>>
    /\ splitPc = "input"
    /\ NormIdle
    /\ UiIdle
    /\ ParseIdle
    /\ AppIdle

SplitLine ==
    /\ splitPc = "input"
    /\ fields' = splitOnUnescapedSemicolons(line)
    /\ splitPc' = "done"
    /\ UNCHANGED <<line, normVars, parseVars, uiVars, appVars>>

NextSplit == SplitLine

SpecSplit == InitSplit /\ [][NextSplit]_vars

(***************************************************************************)
(* Field splitting                                                         *)
(***************************************************************************)
\* the number of consecutive backslashes that end just before position i
RECURSIVE BackslashRun(_, _)
BackslashRun(ln, i) ==
    IF i > 1 /\ ln[i - 1] = "\\" THEN 1 + BackslashRun(ln, i - 1) ELSE 0

\* position i holds a semicolon that no backslash escapes
IsSeparator(ln, i) == ln[i] = ";" /\ BackslashRun(ln, i) % 2 = 0

\* position i holds a backslash that escapes the character after it
IsEscape(ln, i) ==
    /\ ln[i] = "\\"
    /\ BackslashRun(ln, i) % 2 = 0
    /\ i < Len(ln)
    /\ ln[i + 1] \in {";", "\\"}

Separators(ln) == { i \in 1..Len(ln) : IsSeparator(ln, i) }

\* where field k starts and ends: after the separator before it, before
\* the separator after it
FieldStart(ln, k) ==
    IF k = 1 THEN 1
    ELSE 1 + CHOOSE p \in Separators(ln) :
                 Cardinality({ q \in Separators(ln) : q < p }) = k - 2

FieldEnd(ln, k) ==
    IF k = Cardinality(Separators(ln)) + 1 THEN Len(ln)
    ELSE (CHOOSE p \in Separators(ln) :
              Cardinality({ q \in Separators(ln) : q < p }) = k - 1) - 1

\* the characters from lo to hi without the escaping backslashes
RECURSIVE Unescaped(_, _, _)
Unescaped(ln, lo, hi) ==
    IF lo > hi THEN <<>>
    ELSE (IF IsEscape(ln, lo) THEN <<>> ELSE <<ln[lo]>>) \o Unescaped(ln, lo + 1, hi)

\* C10: the fields are the stretches of the line between the semicolons no
\* backslash escapes, the last stretch included, each without the
\* backslashes that escape a semicolon or a backslash: one field more than
\* there are unescaped semicolons; a\;b;c gives a;b and c, x\\y;z gives
\* x\y and z.
C10_FieldsBetweenSeparators ==
    splitPc = "done" =>
        /\ Len(fields) = Cardinality(Separators(line)) + 1
        /\ \A k \in 1..Len(fields) :
              fields[k] = Unescaped(line, FieldStart(line, k), FieldEnd(line, k))
        /\ line = ExampleEscapedSemicolon => fields = << <<"a", ";", "b">>, <<"c">> >>
        /\ line = ExampleEscapedBackslash => fields = << <<"x", "\\", "y">>, <<"z">> >>

\* a line that ends with an unescaped semicolon after an escaped one has
\* been split: its last field is empty and is there
C10_Witness ==
    /\ splitPc = "done"
    /\ Len(line) >= 4
    /\ line[Len(line)] = ";"
    /\ BackslashRun(line, Len(line)) = 0
    /\ \E i \in 1..Len(line) : IsEscape(line, i) /\ line[i + 1] = ";"
    /\ Len(fields) >= 2
    /\ fields[Len(fields)] = <<>>

(***************************************************************************)
(* Inputs of the parser harness                                            *)
(***************************************************************************)
MaxFields == 6          \* fields of a line put together from short fields
MaxLines == 3           \* lines of a bank file

RECURSIVE Join(_, _)
Join(seqs, sep) ==
    IF seqs = <<>> THEN <<>>
    ELSE IF Len(seqs) = 1 THEN seqs[1]
    ELSE seqs[1] \o sep \o Join(Tail(seqs), sep)

Filenames == {"bank_sample.txt", "other.txt"}

\* texts of the category field
CategoryFields ==
    { <<>>,
      <<" ">>,
      <<"M",">","C">>,
      <<" ","S","c","i"," ",">"," ","B","i","o"," ">>,
      <<"A",">","B",">","C">>,
      <<"H">> }

\* texts of the question field (one with an escaped semicolon)
QuestionFields ==
    { <<>>,
      <<" ","Q"," ">>,
      <<"Q","\\",";","x">> }

\* texts of the answers field
AnswersFields ==
    { <<"[","\"","A","\"","]">>,
      <<"[","\""," ","A"," ","\"",",","\"","x","\"","]">>,
      <<" ","["," ","\"","A","\""," ",","," ","\"","B","\""," ","]"," ">>,
      <<"[","]">>,
      <<"[","\"","\"","]">>,
      <<"[","\""," ","\"","]">>,
      <<"[","1","]">>,
      <<"[","\"","A","\"",",","1","]">>,
      <<"\"","A","\"">>,
      <<"n","u","l","l">>,
      <<"[","\"","A","\"">>,
      <<"A">>,
      <<>>,
      <<"[","[","\"","A","\"","]","]">> }

\* texts of the level field
LevelFields ==
    { <<"F","r","e","s","h","m","a","n">>,
      <<"J","u","n","i","o","r"," ","V","a","r","s","i","t","y">>,
      <<"V","a","r","s","i","t","y">>,
      <<" ","F","r","e","s","h","m","a","n">>,
      <<"V","a","r","s","i","t","y"," ">>,
      <<"S","o","p","h","o","m","o","r","e">>,
      <<>>,
      <<"f","r","e","s","h","m","a","n">> }

\* texts of the author field
AuthorFields ==
    { <<>>,
      <<" ","N"," ">>,
      <<"N">> }

\* lines of five fields
FieldLines ==
    { Join(<<c, q, a, l, au>>, <<";">>) :
        c \in CategoryFields, q \in QuestionFields, a \in AnswersFields,
        l \in LevelFields, au \in AuthorFields }

\* lines of one to MaxFields short fields
ShortFields == { <<>>, <<"x">> }
ShortLines ==
    { Join(fs, <<";">>) : fs \in UNION { [1..n -> ShortFields] : n \in 1..MaxFields } }

BlankLines == { <<>>, <<" ">>, <<"\t", " ">> }

\* the lines Cat;Q;["A"];Freshman;Auth and Cat;Q;["A"];Sophomore;Auth
ExampleValidLine == <<"C","a","t",";","Q",";","[","\"","A","\"","]",";","F","r","e","s","h","m","a","n",";","A","u","t","h">>
ExampleUnknownLevel == <<"C","a","t",";","Q",";","[","\"","A","\"","]",";","S","o","p","h","o","m","o","r","e",";","A","u","t","h">>

InitLine ==
    /\ line \in FieldLines \cup ShortLines \cup BlankLines
                \cup {ExampleValidLine, ExampleUnknownLevel, ExampleValidLine \o <<";">>}
    /\ filename \in Filenames
    /\ lineNumber \in {1, MaxLines}
    /\ parsedLine = Null
    /\ content = <<>>
    /\ bankResult = Null
    /\ parsePc = "line"
    /\ fields = <<>>
    /\ splitPc = "idle"
    /\ NormIdle
    /\ UiIdle
    /\ AppIdle

\* one call of parseQuestionLine
ParseLine ==
    /\ parsePc = "line"
    /\ parsedLine' = parseQuestionLine(line, filename, lineNumber)
    /\ parsePc' = "lineDone"
    /\ UNCHANGED <<filename, lineNumber, content, bankResult, normVars, splitVars, uiVars, appVars>>

NextLine == ParseLine

SpecLine == InitLine /\ [][NextLine]_vars

\* the lines a bank file is put together from
BankLines ==
    { ExampleValidLine,
      <<" ","M",">","C",";","Q","\\",";","x",";","[","\""," ","A"," ","\"",",","\"","x","\"","]",";","V","a","r","s","i","t","y",";"," ","N"," ">>,
      ExampleUnknownLevel,
      <<" ","x","\\",";","y",";"," ">>,
      <<" ">>,
      <<>> }

InitBank ==
    /\ \E n \in 1..MaxLines : \E ls \in [1..n -> BankLines] : content = Join(ls, <<"\n">>)
    /\ filename \in Filenames
    /\ lineNumber = 0
    /\ parsedLine = Null
    /\ bankResult = Null
    /\ parsePc = "bank"
    /\ SplitIdle
    /\ UiIdle
    /\ NormIdle
    /\ AppIdle

\* one call of parseQuestionBank
ParseBank ==
    /\ parsePc = "bank"
    /\ bankResult' = parseQuestionBank(content, filename)
    /\ parsePc' = "bankDone"
    /\ UNCHANGED <<filename, lineNumber, parsedLine, content, normVars, splitVars, uiVars, appVars>>

NextBank == ParseBank

SpecBank == InitBank /\ [][NextBank]_vars

(***************************************************************************)
(* Bank parser: one line                                                   *)
(***************************************************************************)
\* the fixed set of levels
EnumeratedLevels ==
    { <<"F","r","e","s","h","m","a","n">>,
      <<"J","u","n","i","o","r"," ","V","a","r","s","i","t","y">>,
      <<"V","a","r","s","i","t","y">> }

\* a call of parseQuestionLine on a line that is not blank has returned
LineParsed == parsePc = "lineDone" /\ ~IsBlank(line)

IsParseError(r) == r # NullResult /\ r.error
IsQuestion(r) == r # NullResult /\ ~r.error

\* the fields of the line, counted from the semicolons no backslash escapes
FieldCount(ln) == Cardinality(Separators(ln)) + 1
FieldText(ln, k) == Unescaped(ln, FieldStart(ln, k), FieldEnd(ln, k))

\* what each validation step finds in a line of five fields
CategoryEmpty(ln) == IsBlank(FieldText(ln, 1))
QuestionEmpty(ln) == IsBlank(FieldText(ln, 2))
AnswersNotJson(ln) == ~JSONParse(FieldText(ln, 3)).ok
AnswersNotArray(ln) ==
    LET v == JSONParse(FieldText(ln, 3)).value
    IN v.type # "array" \/ v.items = <<>>
AnswersNotStrings(ln) ==
    LET v == JSONParse(FieldText(ln, 3)).value
    IN \E k \in 1..Len(v.items) : v.items[k].type # "string" \/ IsBlank(v.items[k].chars)
AuthorEmpty(ln) == IsBlank(FieldText(ln, 5))

\* C11: the checks run in the order field count, category, question,
\* answers (JSON parse, non-empty array, non-empty strings), level, author,
\* and the one reason reported is that of the first check that fails, also
\* when later fields are invalid too.
C11_FirstFailureWins ==
    LineParsed =>
        LET r == parsedLine
            five == FieldCount(line) = 5
            upToCategory == five /\ ~CategoryEmpty(line)
            upToQuestion == upToCategory /\ ~QuestionEmpty(line)
            upToJson == upToQuestion /\ ~AnswersNotJson(line)
            upToArray == upToJson /\ ~AnswersNotArray(line)
            upToAnswers == upToArray /\ ~AnswersNotStrings(line)
            level == FieldText(line, 4)
        IN /\ ~five => IsParseError(r) /\ r.reason[1] = "Expected 5 fields, got "
           /\ (five /\ CategoryEmpty(line))
                 => IsParseError(r) /\ r.reason = <<"Category cannot be empty">>
           /\ (upToCategory /\ QuestionEmpty(line))
                 => IsParseError(r) /\ r.reason = <<"Question cannot be empty">>
           /\ (upToQuestion /\ AnswersNotJson(line))
                 => IsParseError(r) /\ r.reason[1] = "Invalid JSON in answers field: "
           /\ (upToJson /\ AnswersNotArray(line))
                 => IsParseError(r) /\ r.reason = <<"Answers must be a non-empty array">>
           /\ (upToArray /\ AnswersNotStrings(line))
                 => IsParseError(r) /\ r.reason = <<"All answers must be non-empty strings">>
           /\ (upToAnswers /\ Trim(level) \notin EnumeratedLevels)
                 => IsParseError(r) /\ r.reason[1] = "Unknown level: "
           /\ (upToAnswers /\ level \in EnumeratedLevels /\ AuthorEmpty(line))
                 => IsParseError(r) /\ r.reason = <<"Author cannot be empty">>
           /\ (upToAnswers /\ level \in EnumeratedLevels /\ ~AuthorEmpty(line))
                 => IsQuestion(r)

\* a line whose question, answers, level and author are all invalid was
\* reported for its question only
C11_Witness ==
    /\ LineParsed
    /\ FieldCount(line) = 5
    /\ ~CategoryEmpty(line)
    /\ QuestionEmpty(line)
    /\ AnswersNotJson(line)
    /\ Trim(FieldText(line, 4)) \notin EnumeratedLevels
    /\ AuthorEmpty(line)
    /\ IsParseError(parsedLine)
    /\ parsedLine.reason = <<"Question cannot be empty">>

\* C12: a non-blank line whose split yields N fields, N other than 5, gives
\* a ParseError with reason 'Expected 5 fields, got N' and never a record.
C12_FieldCountReported ==
    (LineParsed /\ FieldCount(line) # 5)
        => /\ IsParseError(parsedLine)
           /\ parsedLine.reason = <<"Expected 5 fields, got ", FieldCount(line)>>

\* a valid line with one more unescaped semicolon at its end was reported
\* as having six fields
C12_Witness ==
    /\ LineParsed
    /\ line = ExampleValidLine \o <<";">>
    /\ IsParseError(parsedLine)
    /\ parsedLine.reason = <<"Expected 5 fields, got ", 6>>

\* C13: the level check is applied to the trimmed level: a line that is
\* valid but for whitespace around a level of the set gives a record with
\* the trimmed level, and 'Unknown level' is reported only for a level whose
\* trimmed text is outside the set.
C13_LevelTrimmedBeforeCheck ==
    LineParsed =>
        LET level == FieldText(line, 4)
            otherwiseValid ==
                /\ FieldCount(line) = 5
                /\ ~CategoryEmpty(line) /\ ~QuestionEmpty(line)
                /\ ~AnswersNotJson(line) /\ ~AnswersNotArray(line) /\ ~AnswersNotStrings(line)
                /\ ~AuthorEmpty(line)
        IN /\ (otherwiseValid /\ Trim(level) \in EnumeratedLevels)
                 => IsQuestion(parsedLine) /\ parsedLine.level = Trim(level)
           /\ (IsParseError(parsedLine) /\ parsedLine.reason[1] = "Unknown level: ")
                 => Trim(level) \notin EnumeratedLevels

\* the text before the first occurrence of sep, and the text after it
RECURSIVE FirstIndexOf(_, _, _)
FirstIndexOf(str, sep, i) ==
    IF i > Len(str) THEN 0
    ELSE IF str[i] = sep THEN i
    ELSE FirstIndexOf(str, sep, i + 1)

BeforeFirst(str, sep) ==
    IF FirstIndexOf(str, sep, 1) = 0 THEN str
    ELSE SubSeq(str, 1, FirstIndexOf(str, sep, 1) - 1)

AfterFirst(str, sep) ==
    IF FirstIndexOf(str, sep, 1) = 0 THEN str
    ELSE SubSeq(str, FirstIndexOf(str, sep, 1) + 1, Len(str))

\* C14: in every record, subjectBroad is the part of category before the
\* first '>' and subjectSpecific is all of category after the first '>',
\* also when there is more than one '>', or the full category when it has
\* no '>' (each trimmed, as all string fields are).
C14_SubjectsSplitAtFirstDelimiter ==
    (LineParsed /\ IsQuestion(parsedLine)) =>
        /\ parsedLine.subjectBroad = Trim(BeforeFirst(parsedLine.category, ">"))
        /\ parsedLine.subjectSpecific = Trim(AfterFirst(parsedLine.category, ">"))

IsTrimmedNonEmpty(str) ==
    /\ str # <<>>
    /\ str[1] \notin Whitespace
    /\ str[Len(str)] \notin Whitespace

\* C15: every record has category, question and author trimmed and
\* non-empty, at least one answer, every answer a trimmed non-empty string,
\* and a level that is exactly one of Freshman, Junior Varsity, Varsity.
C15_RecordWellFormed ==
    (LineParsed /\ IsQuestion(parsedLine)) =>
        /\ IsTrimmedNonEmpty(parsedLine.category)
        /\ IsTrimmedNonEmpty(parsedLine.question)
        /\ IsTrimmedNonEmpty(parsedLine.author)
        /\ Len(parsedLine.answers) >= 1
        /\ \A k \in 1..Len(parsedLine.answers) : IsTrimmedNonEmpty(parsedLine.answers[k])
        /\ parsedLine.level \in EnumeratedLevels

\* a record was built from fields with whitespace around them and two
\* answers, one of them with whitespace around it
C15_Witness ==
    /\ LineParsed
    /\ IsQuestion(parsedLine)
    /\ FieldText(line, 1) # parsedLine.category
    /\ FieldText(line, 5) # parsedLine.author
    /\ Len(parsedLine.answers) = 2
    /\ JSONParse(FieldText(line, 3)).value.items[1].chars # parsedLine.answers[1]

(***************************************************************************)
(* Bank parser: the whole file                                             *)
(***************************************************************************)
\* the lines of a text, from the positions of its newline characters
Newlines(text) == { i \in 1..Len(text) : text[i] = "\n" }
LineCount(text) == Cardinality(Newlines(text)) + 1

LineStart(text, k) ==
    IF k = 1 THEN 1
    ELSE 1 + CHOOSE p \in Newlines(text) :
                 Cardinality({ q \in Newlines(text) : q < p }) = k - 2

LineEnd(text, k) ==
    IF k = LineCount(text) THEN Len(text)
    ELSE (CHOOSE p \in Newlines(text) :
              Cardinality({ q \in Newlines(text) : q < p }) = k - 1) - 1

LineText(text, k) == SubSeq(text, LineStart(text, k), LineEnd(text, k))

BankParsed == parsePc = "bankDone"

\* the numbers of the lines parseQuestionLine gives a record for, and of
\* those it gives a ParseError for
ValidLineNumbers ==
    { k \in 1..LineCount(content) :
        IsQuestion(parseQuestionLine(LineText(content, k), filename, k)) }

MalformedLineNumbers ==
    { k \in 1..LineCount(content) :
        IsParseError(parseQuestionLine(LineText(content, k), filename, k)) }

BlankLineNumbers == { k \in 1..LineCount(content) : IsBlank(LineText(content, k)) }

\* seq holds, in the order of the line numbers, the results of the lines
\* numbered in nums
ResultsInFileOrder(seq, nums) ==
    /\ Len(seq) = Cardinality(nums)
    /\ \A k \in nums :
          seq[1 + Cardinality({ j \in nums : j < k })]
              = parseQuestionLine(LineText(content, k), filename, k)

\* C16: parseQuestionBank returns for any content; questions is the
\* sequence of the records of the valid lines in file order and errors the
\* sequence of the ParseErrors of the malformed lines in file order,
\* wherever the malformed lines stand.
C16_TotalAndPositionIndependent ==
    BankParsed =>
        /\ ResultsInFileOrder(bankResult.questions, ValidLineNumbers)
        /\ ResultsInFileOrder(bankResult.errors, MalformedLineNumbers)

\* a file whose first line is malformed and whose last line is valid has
\* been parsed: both are in the result
C16_Witness ==
    /\ BankParsed
    /\ 1 \in MalformedLineNumbers
    /\ LineCount(content) \in ValidLineNumbers
    /\ bankResult.errors # <<>>
    /\ bankResult.questions # <<>>
    /\ bankResult.errors[1].line = 1

\* C17: a blank line gives neither a record nor an error, so that
\* validQuestions + errorCount + the number of blank lines = totalLines,
\* with validQuestions = |questions| and errorCount = |errors|.
C17_BlankLinesSkipped ==
    BankParsed =>
        /\ bankResult.validQuestions = Len(bankResult.questions)
        /\ bankResult.errorCount = Len(bankResult.errors)
        /\ bankResult.validQuestions + bankResult.errorCount
              + Cardinality(BlankLineNumbers) = bankResult.totalLines
        /\ bankResult.totalLines = LineCount(content)
        /\ \A k \in 1..Len(bankResult.errors) :
              bankResult.errors[k].line \notin BlankLineNumbers

\* a file with a blank line between a valid and a malformed line has been
\* parsed
C17_Witness ==
    /\ BankParsed
    /\ LineCount(content) = 3
    /\ BlankLineNumbers = {2}
    /\ bankResult.validQuestions = 1
    /\ bankResult.errorCount = 1
    /\ bankResult.totalLines = 3

\* C18: every ParseError of parseQuestionBank carries the given filename,
\* the 1-based position of its line in the content (blank lines counted)
\* and, as rawLine, the text of that line as it stands in the content.
C18_ErrorNamesItsLine ==
    BankParsed =>
        \A k \in 1..Len(bankResult.errors) :
            LET e == bankResult.errors[k]
            IN /\ e.filename = filename
               /\ e.line \in MalformedLineNumbers
               /\ e.rawLine = LineText(content, e.line)
               /\ \A j \in 1..(k - 1) : bankResult.errors[j].line < e.line

\* the error of a third line that follows a blank line and has whitespace
\* around it and an escaped semicolon in it
C18_Witness ==
    /\ BankParsed
    /\ 2 \in BlankLineNumbers
    /\ \E k \in 1..Len(bankResult.errors) :
          /\ bankResult.errors[k].line = 3
          /\ bankResult.errors[k].rawLine # Trim(bankResult.errors[k].rawLine)
          /\ \E i \in 1..Len(bankResult.errors[k].rawLine) :
                IsEscape(bankResult.errors[k].rawLine, i)

(***************************************************************************)
(* One-question sessions with the timer slider moved between               *)
(* MIN_TIMER_VALUE and MaxCountdown                                        *)
(***************************************************************************)
MaxCountdown == 4       \* largest value of the timer slider in these sessions

CountdownValues == { v \in MIN_TIMER_VALUE..MAX_TIMER_VALUE : v <= MaxCountdown }

InitCountdown ==
    /\ bank = << Question("Math>Calculus", "Varsity", 1) >>
    /\ AppInit
    /\ EnvInit
    /\ NormIdle
    /\ UiIdle
    /\ SplitIdle
    /\ ParseIdle

NextCountdown ==
    \/ LoadQuestionBank
    \/ \E v \in CountdownValues : TimerSliderInput(v)
    \/ startPracticeSession
    \/ \E iv \in intervals : TimerTick(iv)
    \/ toggleTimerPause
    \/ \E input \in AnswerInputs : submitAnswer(input)
    \/ nextQuestion
    \/ BackToSetup
    \/ resetFilters

SpecCountdown == InitCountdown /\ [][NextCountdown]_vars

(***************************************************************************)
(* Session engine: expiry of the countdown                                 *)
(***************************************************************************)
\* C20: a countdown left to expire stops after exactly timeAllocated
\* unpaused ticks, not earlier and not later, and the answer log then holds
\* at currentIndex the record with empty answer, outcome Timeout and elapsed
\* seconds timeAllocated.
C20_ExpiresAfterAllocatedTicks ==
    [][\A iv \in intervals :
          (TimerTick(iv) /\ ~isPaused) =>
              /\ iv.ticks + 1 < timeAllocated => /\ timer' = timer
                                                 /\ iv.id \in IntervalIds(intervals')
                                                 /\ userAnswers' = userAnswers
              /\ iv.ticks + 1 = timeAllocated =>
                    /\ timer' = Null
                    /\ intervals' = {}
                    /\ currentQuestionIndex \in DOMAIN userAnswers'
                    /\ userAnswers'[currentQuestionIndex]
                          = [answer |-> <<>>, correctness |-> "Timeout",
                             timeElapsed |-> timeAllocated]]_vars

(***************************************************************************)
(* Sessions on a bank of two questions, with every control of the practice *)
(* screen; the clock stands still, so that Enter presses fall within the   *)
(* window                                                                  *)
(***************************************************************************)
TwoQuestionBank ==
    << Question("Math>Calculus", "Varsity", 1),
       Question("Science>Biological Science", "Freshman", 2) >>

InitSession ==
    /\ bank = TwoQuestionBank
    /\ AppInit
    /\ timeAllocated = MIN_TIMER_VALUE
    /\ EnvInit
    /\ NormIdle /\ SplitIdle /\ ParseIdle
    /\ UiIdle

NextSession ==
    \/ LoadQuestionBank
    \/ startPracticeSession
    \/ \E input \in AnswerInputs : EnterKey(input)
    \/ \E input \in AnswerInputs : submitAnswer(input)
    \/ nextQuestion
    \/ \E iv \in intervals : TimerTick(iv)
    \/ toggleTimerPause
    \/ BackToSetup
    \/ resetFilters
    \/ BackToPractice

SpecSession == InitSession /\ [][NextSession]_vars

(***************************************************************************)
(* Sessions with the keyboard: Enter presses in the answer input at the    *)
(* times the clock shows, with the next-question button enabled or not     *)
(***************************************************************************)
InitEnter ==
    /\ bank = TwoQuestionBank
    /\ AppInit
    /\ timeAllocated = MIN_TIMER_VALUE
    /\ now = PageLoadTime
    /\ nextDisabled \in BOOLEAN
    /\ NormIdle /\ SplitIdle /\ ParseIdle
    /\ UiIdle

NextEnter ==
    \/ LoadQuestionBank
    \/ startPracticeSession
    \/ \E input \in AnswerInputs : EnterKey(input)
    \/ ClockAdvance
    \/ nextQuestion
    \/ \E iv \in intervals : TimerTick(iv)
    \/ BackToSetup

SpecEnter == InitEnter /\ [][NextEnter]_vars

(***************************************************************************)
(* Session engine: the countdown, submissions and the Enter key            *)
(***************************************************************************)
\* C21: a run of the countdown callback while isPaused is true changes
\* nothing at all (no remaining count, no record, no timer), so it cannot
\* time out; a run while isPaused is false takes exactly one off the
\* remaining count, in the closure and on the display.
C21_PausedTicksHaveNoEffect ==
    [][\A iv \in intervals :
          TimerTick(iv) =>
              /\ isPaused => UNCHANGED vars
              /\ ~isPaused =>
                    /\ countdownText' = countdownText - 1
                    /\ countdownText' = iv.timeLeft - 1
                    /\ \A iw \in intervals' :
                          iw.id = iv.id => iw.timeLeft = iv.timeLeft - 1
                    /\ (userAnswers' # userAnswers) = (iv.timeLeft = 1)]_vars

\* a paused countdown that has run before the pause and not since
C21_Witness ==
    /\ isPaused
    /\ isSessionActive
    /\ \E iv \in intervals :
          /\ iv.id = timer
          /\ iv.ticks >= 1
          /\ iv.timeLeft = timeAllocated - iv.ticks
          /\ countdownText = iv.timeLeft
    /\ currentQuestionIndex \notin DOMAIN userAnswers

\* a submission of the text input: the submit button, or an Enter press
\* that opens a count
Submission(input) == submitAnswer(input) \/ (EnterKey(input) /\ OpensCount)

\* the current question exists and its countdown has not expired
BeforeExpiry ==
    /\ currentQuestionIndex < Len(filteredQuestions)
    /\ currentQuestionIndex \in DOMAIN userAnswers
          => userAnswers[currentQuestionIndex].correctness # "Timeout"

\* C22: a non-empty submission before expiry stops the countdown at once (no
\* interval is left to tick or to time out) and stores at
\* currentQuestionIndex a record with the trimmed text, with timeElapsed =
\* timeAllocated minus the count remaining in the running countdown, and
\* with Correct exactly when isCorrect accepts the text for the current
\* question's answers, Incorrect otherwise.
C22_SubmissionStopsTimerAndRecords ==
    [][\A input \in AnswerInputs :
          (Trim(input) # <<>> /\ BeforeExpiry /\ Submission(input)) =>
              LET index == currentQuestionIndex
                  accepted == isCorrect(Trim(input), filteredQuestions[index + 1].answers)
              IN /\ timer' = Null
                 /\ intervals' = {}
                 /\ countdownText' = countdownText
                 /\ currentQuestionIndex' = index
                 /\ index \in DOMAIN userAnswers'
                 /\ userAnswers'[index].answer = Trim(input)
                 /\ userAnswers'[index].correctness
                       = IF accepted THEN "Correct" ELSE "Incorrect"
                 /\ \A iv \in intervals :
                       iv.id = timer =>
                           userAnswers'[index].timeElapsed = timeAllocated - iv.timeLeft
                 /\ userAnswers'[index].timeElapsed = timeAllocated - countdownText
                 /\ \A i \in DOMAIN userAnswers' \ {index} :
                       i \in DOMAIN userAnswers /\ userAnswers'[i] = userAnswers[i]]_vars

\* a correct answer stored after one tick of the countdown, which is stopped
C22_Witness ==
    /\ screen = "practice-screen"
    /\ isSessionActive
    /\ currentQuestionIndex \in DOMAIN userAnswers
    /\ userAnswers[currentQuestionIndex]
          = AnswerRecord(<<"X">>, "Correct", 1)
    /\ countdownText = timeAllocated - 1
    /\ timer = Null
    /\ intervals = {}

\* nothing but spaces, or nothing at all
Blank(input) == \A i \in 1..Len(input) : input[i] = " "

\* C23: a submission of an empty or whitespace-only text, by the button or
\* by an Enter press that opens a count, is rejected: no record is written,
\* currentQuestionIndex and the rest of the session state stay as they are,
\* and the countdown stays live with the same remaining count.
C23_BlankSubmissionRejected ==
    [][\A input \in AnswerInputs :
          (Blank(input) /\ Submission(input)) =>
              UNCHANGED <<filteredQuestions, currentQuestionIndex, userAnswers,
                          timeAllocated, isPaused, isSessionActive, timer, intervals,
                          countdownText, statsDisplay, screen>>]_vars

\* an Enter press opened a count on this question and left no record, and
\* the countdown still runs
C23_Witness ==
    /\ screen = "practice-screen"
    /\ enterPressCount = 1
    /\ lastEnter.role = "first"
    /\ ~lastEnter.advanced
    /\ lastEnterTime = lastEnter.at
    /\ currentQuestionIndex \notin DOMAIN userAnswers
    /\ timer # Null
    /\ \E iv \in intervals : iv.id = timer /\ iv.timeLeft = countdownText

\* C24: in every reachable state at most one countdown interval is live,
\* and it is the one appState.timer names, so that the clearInterval of the
\* next startTimer, submitAnswer or endSession cancels it; with no interval
\* live, appState.timer names none that could be cancelled by mistake.
C24_AtMostOneCountdown ==
    /\ Cardinality(intervals) <= 1
    /\ \A iv \in intervals : iv.id = timer
    /\ timer # Null => timer \in IntervalIds(intervals)

\* the second question's countdown was started while the first one's was
\* still running: the first question has neither an answer nor a timeout
C24_Witness ==
    /\ isSessionActive
    /\ currentQuestionIndex = 1
    /\ 0 \notin DOMAIN userAnswers
    /\ timer # Null
    /\ \E iv \in intervals : intervals = {iv} /\ iv.id = timer /\ iv.ticks = 0

\* an Enter press follows a press that opened a count, at most 1000 ms
\* after it, with no session start and no advance to a new question between
SecondPress ==
    /\ lastEnter.role = "first"
    /\ ~lastEnter.advanced
    /\ now - lastEnter.at <= 1000

\* what an Enter press in the answer input does
EnterSubmits(input) ==
    /\ currentQuestionIndex' = currentQuestionIndex
    /\ (Trim(input) # <<>> /\ currentQuestionIndex < Len(filteredQuestions))
          => /\ currentQuestionIndex \in DOMAIN userAnswers'
             /\ userAnswers'[currentQuestionIndex].answer = Trim(input)
             /\ timer' = Null
    /\ Blank(input) => userAnswers' = userAnswers

EnterAdvances ==
    /\ currentQuestionIndex' = currentQuestionIndex + 1
    /\ userAnswers' = userAnswers

\* C25: the Enter press that opens a count submits the text and does not
\* advance; the press that follows it within 1000 ms advances by exactly one
\* question and submits nothing, and it does so only when the next-question
\* button is enabled; no press both stores a record and advances.
C25_FirstSubmitsSecondAdvances ==
    [][\A input \in AnswerInputs :
          EnterKey(input) =>
              /\ ~SecondPress => EnterSubmits(input)
              /\ (SecondPress /\ ~nextDisabled) => EnterAdvances
              /\ (SecondPress /\ nextDisabled)
                    => UNCHANGED <<currentQuestionIndex, userAnswers, timer, intervals>>
              /\ ~(userAnswers' # userAnswers
                    /\ currentQuestionIndex' # currentQuestionIndex)]_vars

\* the second of two Enter presses within the window has advanced to the
\* second question, after the first one stored an answer for the first
C25_Witness ==
    /\ lastEnter.role = "second"
    /\ lastEnterTime = 0
    /\ enterPressCount = 0
    /\ currentQuestionIndex = 1
    /\ 0 \in DOMAIN userAnswers
    /\ userAnswers[0].answer # <<>>
    /\ 1 \notin DOMAIN userAnswers
    /\ ~nextDisabled
    /\ isSessionActive
    /\ timer # Null

\* C26: the count starts anew: an Enter press more than 1000 ms after the
\* previous one, and the first Enter press after the session started or
\* advanced to a new question (by Enter, by the next button or by the N
\* key), submits and does not advance, however soon it follows the press
\* before it.
C26_CountingWindowResets ==
    [][\A input \in AnswerInputs :
          (/\ EnterKey(input)
           /\ \/ lastEnter.at = Null
              \/ now - lastEnter.at > 1000
              \/ lastEnter.advanced)
            => /\ currentQuestionIndex' = currentQuestionIndex
               /\ isSessionActive' = isSessionActive
               /\ screen' = screen
               /\ enterPressCount' = 1
               /\ (Trim(input) # <<>> /\ currentQuestionIndex < Len(filteredQuestions))
                     => /\ currentQuestionIndex \in DOMAIN userAnswers'
                        /\ userAnswers'[currentQuestionIndex].answer = Trim(input)]_vars

\* both questions were answered by Enter presses within one second of the
\* page load: the press on the second question came within the window of
\* the press on the first and still submitted
C26_Witness ==
    /\ now <= PageLoadTime + 1000
    /\ currentQuestionIndex = 1
    /\ 0 \in DOMAIN userAnswers /\ userAnswers[0].correctness # "Timeout"
    /\ 1 \in DOMAIN userAnswers /\ userAnswers[1].correctness # "Timeout"
    /\ lastEnter.role = "first"
    /\ lastEnter.at = lastEnterTime
    /\ enterPressCount = 1
    /\ isSessionActive

(***************************************************************************)
(* Session engine: scoring                                                 *)
(***************************************************************************)
MaxAnswers == 40        \* largest number of answers of a scored log

\* an answer log of c correct, i incorrect and t timed-out answers, its
\* first recorded index being from
AnswerLog(c, i, t, from) ==
    [k \in from..(from + c + i + t - 1) |->
        IF k - from < c THEN AnswerRecord(<<"x">>, "Correct", 0)
        ELSE IF k - from < c + i THEN AnswerRecord(<<"y">>, "Incorrect", 0)
        ELSE AnswerRecord(<<>>, "Timeout", MIN_TIMER_VALUE)]

InitScore ==
    /\ \E c \in 0..MaxAnswers : \E i \in 0..(MaxAnswers - c) : \E t \in 0..1 :
       \E from \in 0..1 :
            uiAnswers = AnswerLog(c, i, t, from)
    /\ uiQuestions = <<>>
    /\ uiShown = NoSummary
    /\ uiPc = "stats"
    /\ NormIdle
    /\ SplitIdle
    /\ ParseIdle
    /\ AppIdle

\* the scoring pass of submitAnswer and handleTimeout: calculateStats, then
\* updateStats and updateAccuracyDisplay
ShowStats ==
    /\ uiPc = "stats"
    /\ uiShown' = StatsDisplayFor(uiAnswers)
    /\ uiPc' = "statsDone"
    /\ UNCHANGED <<uiQuestions, uiAnswers, normVars, splitVars, parseVars, appVars>>

NextScore == ShowStats

SpecScore == InitScore /\ [][NextScore]_vars

\* the indices of the log ua that hold one of the outcomes
RecordedIn(ua, outcomes) == { i \in DOMAIN ua : ua[i].correctness \in outcomes }

Recorded(outcomes) == RecordedIn(userAnswers, outcomes)

\* p is 100 * c / t rounded to the nearest integer, a half going up
IsRoundedPercent(p, c, t) == 2 * p * t - t <= 200 * c /\ 200 * c < 2 * p * t + t

\* the display shown agrees with the log ua
CountsTheLog(shown, ua) ==
    LET c == Cardinality(RecordedIn(ua, {"Correct"}))
        w == Cardinality(RecordedIn(ua, {"Incorrect", "Timeout"}))
    IN /\ shown.correct = c
       /\ shown.incorrect = w
       /\ c + w = Cardinality(DOMAIN ua)
       /\ c + w = 0 => shown.accuracy = 0
       /\ c + w > 0 => IsRoundedPercent(shown.accuracy, c, c + w)

\* C27: at every point the scoring pass over the answer log gives correct =
\* the number of entries with outcome Correct and incorrect = the number with
\* Incorrect or Timeout, so that together they count the recorded entries;
\* the accuracy is 100 * correct / (correct + incorrect) rounded to the
\* nearest integer, 0 with none recorded; the display shows these values
\* once an entry is recorded; and a session whose questions were all
\* answered correctly ends with correct = N, incorrect = 0 and accuracy 100.
C27_StatsCountTheLog ==
    LET N == Len(filteredQuestions)
    IN /\ uiPc = "statsDone" => CountsTheLog(uiShown, uiAnswers)
       /\ CountsTheLog(StatsDisplayFor(userAnswers), userAnswers)
       /\ DOMAIN userAnswers # {} => statsDisplay = StatsDisplayFor(userAnswers)
       /\ (screen = "summary-screen" /\ Recorded({"Correct"}) = 0..(N - 1))
             => statsDisplay = [correct |-> N, incorrect |-> 0, accuracy |-> 100]

(***************************************************************************)
(* The summary of a session                                                *)
(***************************************************************************)
MaxSummary == 3         \* questions of a summarised working set

SummaryCategories == {"Math>Calculus", "Computer Science>constructor"}

\* working sets of up to n questions
RECURSIVE WorkingSets(_)
WorkingSets(n) ==
    IF n = 0 THEN { <<>> }
    ELSE WorkingSets(n - 1)
         \cup { Append(qs, Question(c, "Varsity", 1)) :
                    qs \in { ws \in WorkingSets(n - 1) : Len(ws) = n - 1 },
                    c \in SummaryCategories }

SummaryRecords ==
    { AnswerRecord(<<"x">>, "Correct", 0), AnswerRecord(<<"y">>, "Incorrect", 0),
      AnswerRecord(<<>>, "Timeout", MIN_TIMER_VALUE) }

\* the answer logs a session over n questions can end with
AnswerLogs(n) ==
    UNION { [answered -> SummaryRecords] : answered \in SUBSET (0..(n - 1)) }

InitSummary ==
    /\ uiQuestions \in WorkingSets(MaxSummary) \ { <<>> }
    /\ uiAnswers \in AnswerLogs(Len(uiQuestions))
    /\ uiShown = NoSummary
    /\ uiPc = "summary"
    /\ NormIdle
    /\ SplitIdle
    /\ ParseIdle
    /\ AppIdle

\* the call of showSummary at the end of a session
ShowSummaryCall ==
    /\ uiPc = "summary"
    /\ uiShown' = showSummary(uiQuestions, uiAnswers)
    /\ uiPc' = "summaryDone"
    /\ UNCHANGED <<uiQuestions, uiAnswers, normVars, splitVars, parseVars, appVars>>

NextSummary == ShowSummaryCall

SpecSummary == InitSummary /\ [][NextSummary]_vars

\* the missed list of the summary sd lists exactly the questions of qs the
\* log ua holds outcome Incorrect or Timeout for, with the canonical answer
\* and the submitted text, the placeholder standing for a timeout only
MissedListMatches(sd, qs, ua) ==
    LET rows == sd.missed
    IN /\ { rows[k].index : k \in DOMAIN rows }
            = { i \in 0..(Len(qs) - 1) :
                    i \in DOMAIN ua /\ ua[i].correctness \in {"Incorrect", "Timeout"} }
       /\ \A k \in DOMAIN rows :
            LET i == rows[k].index
            IN /\ rows[k].canonical = qs[i + 1].answers[1]
               /\ rows[k].answer = Placeholder
                    => i \in DOMAIN ua /\ ua[i].correctness = "Timeout"
               /\ (i \in DOMAIN ua /\ ua[i].correctness = "Incorrect")
                    => rows[k].answer = ua[i].answer

\* C28: the missed-questions list written when a session completes holds
\* exactly the working-set questions whose recorded outcome is Incorrect or
\* Timeout, each with its canonical answer answers[0] and the text the user
\* submitted, the placeholder being shown only for a question that timed out.
C28_MissedListIsTheMissed ==
    [][(screen # "summary-screen" /\ screen' = "summary-screen")
          => MissedListMatches(summaryDisplay', filteredQuestions, userAnswers)]_vars

RECURSIVE SumOf(_, _, _)
SumOf(f, S, field) ==
    IF S = {} THEN 0
    ELSE LET x == CHOOSE y \in S : TRUE
         IN f[x][field] + SumOf(f, S \ {x}, field)

\* the per-subject figures of the summary sd agree with the working set qs
\* and the log ua
BreakdownAgrees(sd, qs, ua) ==
    LET subjects == { qs[k].subjectSpecific : k \in 1..Len(qs) }
        correctCount == calculateStats(ua).correct
        reported == DOMAIN sd.breakdown
    IN /\ \A subject \in subjects :
            /\ subject \in reported
            /\ sd.breakdown[subject].total
                 = Cardinality({ k \in 1..Len(qs) : qs[k].subjectSpecific = subject })
            /\ sd.breakdown[subject].correct
                 = Cardinality({ k \in 1..Len(qs) :
                        /\ qs[k].subjectSpecific = subject
                        /\ (k - 1) \in DOMAIN ua
                        /\ ua[k - 1].correctness = "Correct" })
       /\ SumOf(sd.breakdown, reported, "total") = Len(qs)
       /\ SumOf(sd.breakdown, reported, "correct") = correctCount
       /\ Len(sd.missed) + correctCount = Len(qs)

\* C29: in the summary, for each subjectSpecific value the reported total is
\* the number of working-set questions of that subject and the reported
\* correct the number of those with recorded outcome Correct; the totals sum
\* to the size of the working set, the corrects to the overall correct
\* count, and missed questions plus correct count make the working set.
C29_SubjectFiguresAddUp ==
    uiPc = "summaryDone" => BreakdownAgrees(uiShown, uiQuestions, uiAnswers)

\* the same for the summary a session writes when it completes
SessionBreakdownAgrees ==
    [][(screen # "summary-screen" /\ screen' = "summary-screen")
          => BreakdownAgrees(summaryDisplay', filteredQuestions, userAnswers)]_vars

(***************************************************************************)
(* The time allocated to a question                                        *)
(***************************************************************************)
\* C30: timeAllocated is an integer from MIN_TIMER_VALUE to MAX_TIMER_VALUE
\* and keeps its value from the start of a session to its end, whatever
\* input events the timer slider receives.
C30_AllocationFixedWhileActive ==
    [][/\ timeAllocated \in MIN_TIMER_VALUE..MAX_TIMER_VALUE
       /\ timeAllocated' \in MIN_TIMER_VALUE..MAX_TIMER_VALUE
       /\ (isSessionActive /\ isSessionActive') => timeAllocated' = timeAllocated]_vars

(***************************************************************************)
(* The CSV export (csv.js)                                                 *)
(***************************************************************************)
\* one object of the array prepareSessionResultsForCsv returns, for the
\* question at index i (0-based); questionId, question, author and timestamp
\* are copied from the question and the clock and left out
CsvRow(qs, ua, allocated, i) ==
    LET question == qs[i + 1]
        recorded == i \in DOMAIN ua
    IN [index |-> i,
        category |-> question.category,
        subjectSpecific |-> question.subjectSpecific,
        level |-> question.level,
        userAnswer |-> IF recorded THEN ua[i].answer ELSE <<>>,
        correctness |-> IF recorded THEN ua[i].correctness ELSE "Incorrect",
        timeAllocatedSec |-> allocated,
        timeElapsedSec |-> IF recorded THEN ua[i].timeElapsed ELSE 0]

\* prepareSessionResultsForCsv: questions.map(...)
prepareSessionResultsForCsv(qs, ua, allocated) ==
    [k \in 1..Len(qs) |-> CsvRow(qs, ua, allocated, k - 1)]

InitExport ==
    /\ uiQuestions \in WorkingSets(MaxSummary) \ { <<>> }
    /\ uiAnswers \in AnswerLogs(Len(uiQuestions))
    /\ uiShown = NoSummary
    /\ uiPc = "export"
    /\ NormIdle
    /\ SplitIdle
    /\ ParseIdle
    /\ AppIdle

\* exportResults: the data it hands to exportSessionCsv
exportResults ==
    /\ uiPc = "export"
    /\ uiShown' = [rows |-> prepareSessionResultsForCsv(uiQuestions, uiAnswers, timeAllocated)]
    /\ uiPc' = "exportDone"
    /\ UNCHANGED <<uiQuestions, uiAnswers, normVars, splitVars, parseVars, appVars>>

NextExport == exportResults

SpecExport == InitExport /\ [][NextExport]_vars

\* the rows hold one row for each question of qs the log ua has a record
\* for and no other, each with the recorded outcome, text and elapsed seconds
RowsAreTheRecords(rows, qs, ua) ==
    LET answered == { i \in 0..(Len(qs) - 1) : i \in DOMAIN ua }
    IN /\ { rows[k].index : k \in DOMAIN rows } = answered
       /\ \A i \in answered : Cardinality({ k \in DOMAIN rows : rows[k].index = i }) = 1
       /\ \A k \in DOMAIN rows :
            rows[k].index \in answered
                => /\ rows[k].correctness = ua[rows[k].index].correctness
                   /\ rows[k].userAnswer = ua[rows[k].index].answer
                   /\ rows[k].timeElapsedSec = ua[rows[k].index].timeElapsed

\* C31: the export data holds exactly one row per answered or timed-out
\* question of the working set, and each row carries that question's
\* recorded outcome, answer text and elapsed seconds.
C31_OneRowPerRecord ==
    uiPc = "exportDone" => RowsAreTheRecords(uiShown.rows, uiQuestions, uiAnswers)

(***************************************************************************)
(* Session engine: the cursor and the answer log                           *)
(***************************************************************************)
\* this step is an advance request: nextQuestion ran
Advance == currentQuestionIndex' = currentQuestionIndex + 1

\* this step completes the session: the summary is shown
Completes == screen # "summary-screen" /\ screen' = "summary-screen"

\* C32: a session over N questions completes exactly at the advance request
\* made while currentIndex = N - 1; at that step active becomes false, no
\* countdown is started and the summary is produced with total N; and while
\* active is true currentIndex is below the size of the working set.
C32_CompletesAtLastAdvance ==
    [][LET N == Len(filteredQuestions)
       IN /\ (isSessionActive /\ Advance)
                => (currentQuestionIndex = N - 1 <=> Completes)
          /\ (isSessionActive /\ Completes)
                => /\ Advance
                   /\ currentQuestionIndex = N - 1
                   /\ ~isSessionActive'
                   /\ timer' = Null
                   /\ intervals' \subseteq intervals
                   /\ summaryDisplay'.total = N
          /\ isSessionActive' => currentQuestionIndex' < Len(filteredQuestions')]_vars

\* a session over two questions has completed at its second advance request
C32_Witness ==
    /\ screen = "summary-screen"
    /\ ~isSessionActive
    /\ Len(filteredQuestions) = 2
    /\ currentQuestionIndex = 2
    /\ timer = Null
    /\ summaryDisplay.total = 2

\* the logs before and after this step agree everywhere but at index
SameLogExceptAt(index) ==
    \A i \in (DOMAIN userAnswers \cup DOMAIN userAnswers') \ {index} :
        /\ i \in DOMAIN userAnswers
        /\ i \in DOMAIN userAnswers'
        /\ userAnswers'[i] = userAnswers[i]

\* C33: within a session the entries of the answer log below currentIndex
\* are never created, changed or removed: a step that changes the log and
\* is not a session start is a submission or a timeout, writes at
\* currentIndex only, and is neither an advance, a pause toggle nor the end
\* of the session.
C33_EarlierEntriesFrozen ==
    [][userAnswers' # userAnswers
          => \/ startPracticeSession
             \/ /\ SameLogExceptAt(currentQuestionIndex)
                /\ currentQuestionIndex' = currentQuestionIndex
                /\ isPaused' = isPaused
                /\ isSessionActive' = isSessionActive
                /\ \/ \E input \in AnswerInputs : SubmitAnswerBody(input)
                   \/ \E iv \in intervals : TimerTick(iv)]_vars

\* the second question has its record and the record of the first is still
\* the one written before the advance
C33_Witness ==
    /\ isSessionActive
    /\ currentQuestionIndex = 1
    /\ DOMAIN userAnswers = {0, 1}
    /\ userAnswers[0].correctness = "Timeout"
    /\ userAnswers[1].correctness = "Correct"

\* this step is a successful session start: the practice screen replaces
\* the setup screen
SessionStarts == screen = "setup-screen" /\ screen' = "practice-screen"

\* C34: every successful session start sets currentIndex to 0, empties the
\* answer log, sets paused to false and active to true; afterwards
\* currentIndex changes only by +1 through an advance request (next button,
\* N key or second Enter), so that submission, timeout, pause toggle and
\* session end never change it and it never decreases within a session.
C34_CursorOnlyAdvances ==
    [][/\ SessionStarts
            => /\ startPracticeSession
               /\ currentQuestionIndex' = 0
               /\ userAnswers' = NoAnswers
               /\ ~isPaused'
               /\ isSessionActive'
       /\ (currentQuestionIndex' # currentQuestionIndex /\ ~SessionStarts)
            => /\ Advance
               /\ userAnswers' = userAnswers
               /\ isPaused' = isPaused
               /\ \/ nextQuestion
                  \/ \E input \in AnswerInputs : EnterKey(input)]_vars

\* a session has started anew after an earlier one ran to its summary over
\* two questions: the cursor is back at 0 and the log is empty
C34_Witness ==
    /\ screen = "practice-screen"
    /\ isSessionActive
    /\ ~isPaused
    /\ currentQuestionIndex = 0
    /\ userAnswers = NoAnswers
    /\ summaryDisplay.total = 2
    /\ lastStart.result = "started"

\* the session ran to completion: it advanced past its last question
Completed ==
    /\ ~isSessionActive
    /\ Len(filteredQuestions) > 0
    /\ currentQuestionIndex >= Len(filteredQuestions)

\* C35: once a session has completed, currentIndex does not exceed the size
\* of the working set, and neither currentIndex nor the answer log changes
\* until the next session start, whatever the summary screen allows
\* (back-to-practice, then next-question clicks, submissions, Enter presses).
C35_CompletedSessionFrozen ==
    [][(Completed /\ ~SessionStarts)
          => /\ currentQuestionIndex <= Len(filteredQuestions)
             /\ currentQuestionIndex' = currentQuestionIndex
             /\ userAnswers' = userAnswers]_vars

\* C36: an advance triggered by the Enter key comes only after the first
\* Enter of the pair submitted an answer: whenever the second press calls
\* nextQuestion, the answer log holds a record for the question being left.
C36_EnterAdvanceLeavesRecord ==
    [][(Advance /\ currentQuestionIndex < Len(filteredQuestions)
          /\ \E input \in AnswerInputs : EnterKey(input))
          => currentQuestionIndex \in DOMAIN userAnswers]_vars

(***************************************************************************)
(* Session engine: elapsed seconds                                         *)
(***************************************************************************)
\* C37: while a session is active every record of the answer log has
\* elapsed seconds from 0 to timeAllocated, and a Timeout record has
\* exactly timeAllocated.
C37_ElapsedWithinAllocation ==
    isSessionActive
        => \A i \in DOMAIN userAnswers :
              /\ 0 <= userAnswers[i].timeElapsed
              /\ userAnswers[i].timeElapsed <= timeAllocated
              /\ userAnswers[i].correctness = "Timeout"
                    => userAnswers[i].timeElapsed = timeAllocated

(***************************************************************************)
(* Session engine: the pause flag                                          *)
(***************************************************************************)
\* C38: paused is changed only by toggleTimerPause and by a session start,
\* which sets it to false; nextQuestion, submitAnswer and handleTimeout
\* leave it unchanged, so a question displayed by an advance made while
\* paused starts with its countdown at timeAllocated, and while paused
\* stays true the countdown does not count down.
C38_PauseSurvivesAdvance ==
    [][/\ isPaused' # isPaused
            => \/ SessionStarts /\ ~isPaused'
               \/ toggleTimerPause
       /\ (isPaused /\ Advance /\ AdvancesToNewQuestion)
            => /\ isPaused'
               /\ countdownText' = timeAllocated
               /\ timer' # Null
               /\ \E iv \in intervals' : iv.id = timer' /\ iv.timeLeft = timeAllocated
       /\ (isPaused /\ isPaused' /\ ~Advance /\ ~SessionStarts)
            => /\ countdownText' = countdownText
               /\ intervals' \subseteq intervals]_vars

\* the second question was displayed by an advance made while paused: its
\* countdown stands at timeAllocated and has not run
C38_Witness ==
    /\ isSessionActive
    /\ isPaused
    /\ currentQuestionIndex = 1
    /\ countdownText = timeAllocated
    /\ \E iv \in intervals : iv.id = timer /\ iv.timeLeft = timeAllocated /\ iv.ticks = 0

(***************************************************************************)
(* Session engine: every displayed question is finalized                   *)
(***************************************************************************)
\* One session after another on the practice screen, each left by its
\* summary or by back-to-setup; setInterval runs the countdown callback again
\* and again for as long as the interval is live.
InitLive ==
    /\ bank = TwoQuestionBank
    /\ AppInit
    /\ timeAllocated = MIN_TIMER_VALUE
    /\ EnvInit
    /\ NormIdle /\ SplitIdle /\ ParseIdle
    /\ UiIdle

CountdownTicks == \E iv \in intervals : TimerTick(iv)

NextLive ==
    \/ LoadQuestionBank
    \/ startPracticeSession
    \/ CountdownTicks
    \/ toggleTimerPause
    \/ \E input \in AnswerInputs : submitAnswer(input)
    \/ nextQuestion
    \/ BackToSetup

SpecLive == InitLive /\ [][NextLive]_vars /\ WF_vars(CountdownTicks)

\* the question at index k is displayed in an active session and its
\* countdown is live
Displayed(k) == isSessionActive /\ currentQuestionIndex = k /\ timer # Null

\* the question at index k has its record and no live countdown, or the
\* user advanced or ended the session first
Finalized(k) ==
    \/ k \in DOMAIN userAnswers /\ timer = Null
    \/ currentQuestionIndex # k
    \/ ~isSessionActive

SubjectOrder == <<"Math>Calculus", "Science>Biological Science">>

\* selectedSubjects.sort()
SortedSubjects(selectedSubjects) ==
    SelectSeq(SubjectOrder, LAMBDA c : c \in selectedSubjects)

\* Array.prototype.join(',')
RECURSIVE JoinWithComma(_)
JoinWithComma(strings) ==
    IF strings = <<>> THEN ""
    ELSE IF Len(strings) = 1 THEN strings[1]
    ELSE strings[1] \o "," \o JoinWithComma(Tail(strings))

createFilterCacheKey(selectedSubjects, level) ==
    JoinWithComma(SortedSubjects(selectedSubjects)) \o "|" \o level

EmptyCache == [key \in {} |-> <<>>]

\* #pool-preview as the page has it before any refresh, and an empty Map
NoPreview == [cache |-> EmptyCache, count |-> 0, written |-> FALSE]

\* filterQuestionsMemoized: the Map it leaves and the array it returns
filterQuestionsMemoized(cache, qs, selectedSubjects, level) ==
    LET cacheKey == createFilterCacheKey(selectedSubjects, level)
        filtered == Filtered(qs, selectedSubjects, level)
    IN IF cacheKey \in DOMAIN cache
       THEN [cache |-> cache, result |-> cache[cacheKey]]
       ELSE [cache |-> [k \in DOMAIN cache \cup {cacheKey} |->
                            IF k = cacheKey THEN filtered ELSE cache[k]],
             result |-> filtered]

\* updatePoolPreview with the checkboxes chk checked and the level radio lvl
updatePoolPreview(shown, qs, chk, lvl) ==
    LET m == filterQuestionsMemoized(shown.cache, qs, chk, lvl)
    IN [cache |-> m.cache, count |-> Len(m.result), written |-> TRUE]

clearFilterCache(shown) == [shown EXCEPT !.cache = EmptyCache]

\* the level radios the preview is exercised with
PreviewLevels == {"", "Varsity"}

PreviewBanks ==
    { <<>>,
      << Question("Math>Calculus", "Varsity", 1) >>,
      TwoQuestionBank,
      << Question("Math>Calculus", "Freshman", 2), Question("Math>Calculus", "Varsity", 1) >> }

InitPreview ==
    /\ bank \in PreviewBanks
    /\ AppInit
    /\ timeAllocated = MIN_TIMER_VALUE
    /\ EnvInit
    /\ NormIdle /\ SplitIdle /\ ParseIdle
    /\ uiQuestions = <<>>
    /\ uiAnswers = <<>>
    /\ uiShown = NoPreview
    /\ uiPc = "preview"

\* what the handlers of the setup screen leave alone
PreviewRest ==
    UNCHANGED <<normVars, splitVars, parseVars, uiQuestions, uiAnswers, uiPc, bank,
                sessionVars, timeAllocated, lastStart, keyVars, statsDisplay,
                summaryDisplay, envVars>>

\* loadQuestionBank (clearFilterCache, the pool, updateSubjectSelector,
\* updatePoolPreview), then initializeUI (selectAllSubjects)
PreviewLoad ==
    /\ uiPc = "preview"
    /\ loadState = "loading"
    /\ loadState' = "loaded"
    /\ questions' = bank
    /\ disabled' = DisabledFor(bank)
    /\ checked' = SelectAllResult(checked \ disabled', disabled')
    /\ uiShown' = updatePoolPreview(
                      updatePoolPreview(clearFilterCache(uiShown), bank,
                                        checked \ disabled', selectedLevel),
                      bank, checked', selectedLevel)
    /\ UNCHANGED <<selectedLevel, screen>>
    /\ PreviewRest

\* handleFilterChange: a 'change' event of a subject checkbox
PreviewCheckboxChange(c) ==
    /\ uiPc = "preview"
    /\ screen = "setup-screen"
    /\ c \notin disabled
    /\ checked' = IF c \in checked THEN checked \ {c} ELSE checked \cup {c}
    /\ uiShown' = updatePoolPreview(uiShown, questions, checked', selectedLevel)
    /\ UNCHANGED <<loadState, questions, disabled, selectedLevel, screen>>
    /\ PreviewRest

\* handleFilterChange: a 'change' event of a level radio
PreviewLevelChange(level) ==
    /\ uiPc = "preview"
    /\ screen = "setup-screen"
    /\ level # selectedLevel
    /\ selectedLevel' = level
    /\ uiShown' = updatePoolPreview(uiShown, questions, checked, level)
    /\ UNCHANGED <<loadState, questions, checked, disabled, screen>>
    /\ PreviewRest

\* the select-all button: selectAllSubjects
PreviewSelectAll ==
    /\ uiPc = "preview"
    /\ screen = "setup-screen"
    /\ checked' = SelectAllResult(checked, disabled)
    /\ uiShown' = updatePoolPreview(uiShown, questions, checked', selectedLevel)
    /\ UNCHANGED <<loadState, questions, disabled, selectedLevel, screen>>
    /\ PreviewRest

\* the clear-all button: clearAllSubjects
PreviewClearAll ==
    /\ uiPc = "preview"
    /\ screen = "setup-screen"
    /\ checked' = {}
    /\ uiShown' = updatePoolPreview(uiShown, questions, checked', selectedLevel)
    /\ UNCHANGED <<loadState, questions, disabled, selectedLevel, screen>>
    /\ PreviewRest

\* handleSectionHeaderClick
PreviewSectionHeaderClick(group) ==
    /\ uiPc = "preview"
    /\ screen = "setup-screen"
    /\ LET allSelected == group \subseteq checked
       IN checked' = IF allSelected
                     THEN checked \ (group \ disabled)
                     ELSE checked \cup (group \ disabled)
    /\ uiShown' = updatePoolPreview(uiShown, questions, checked', selectedLevel)
    /\ UNCHANGED <<loadState, questions, disabled, selectedLevel, screen>>
    /\ PreviewRest

\* the refreshes of startPracticeSession: selectAllSubjects of the first
\* try, selectAllAvailableSubjects of the third, and the updatePoolPreview
\* after a successful expansion
PreviewAfterStart(shown, qs, chk, dis, lvl) ==
    LET p == FallbackPath(qs, chk, dis, lvl)
        chk1 == IF 1 \in p.tries THEN SelectAllResult(chk, dis) ELSE chk
        s1 == IF 1 \in p.tries THEN updatePoolPreview(shown, qs, chk1, lvl) ELSE shown
        s3 == IF 3 \in p.tries THEN updatePoolPreview(s1, qs, p.checked, p.level) ELSE s1
    IN IF Len(Filtered(qs, chk, lvl)) = 0 /\ p.selected # <<>>
       THEN updatePoolPreview(s3, qs, p.checked, p.level)
       ELSE s3

\* startPracticeSession, as far as the filters and the preview go
PreviewStartSession ==
    /\ uiPc = "preview"
    /\ screen = "setup-screen"
    /\ loadState # "loading"
    /\ LET p == FallbackPath(questions, checked, disabled, selectedLevel)
       IN /\ checked' = p.checked
          /\ selectedLevel' = p.level
          /\ screen' = IF p.selected = <<>> THEN screen ELSE "practice-screen"
    /\ uiShown' = PreviewAfterStart(uiShown, questions, checked, disabled, selectedLevel)
    /\ UNCHANGED <<loadState, questions, disabled>>
    /\ PreviewRest

\* endSession: clearFilterCache, then the summary screen
PreviewEndSession ==
    /\ uiPc = "preview"
    /\ screen = "practice-screen"
    /\ screen' = "summary-screen"
    /\ uiShown' = clearFilterCache(uiShown)
    /\ UNCHANGED <<loadState, questions, checked, disabled, selectedLevel>>
    /\ PreviewRest

\* back-to-setup, confirmed: endSession, then the setup screen
PreviewBackToSetup ==
    /\ uiPc = "preview"
    /\ screen = "practice-screen"
    /\ screen' = "setup-screen"
    /\ uiShown' = clearFilterCache(uiShown)
    /\ UNCHANGED <<loadState, questions, checked, disabled, selectedLevel>>
    /\ PreviewRest

\* resetFilters (the reset buttons, and startNewSession of the summary
\* screen): selectAllSubjects refreshes the preview, then the "any level"
\* radio is checked by assignment, which fires no 'change' event
PreviewResetFilters ==
    /\ uiPc = "preview"
    /\ checked' = SelectAllResult(checked, disabled)
    /\ uiShown' = updatePoolPreview(uiShown, questions, checked', selectedLevel)
    /\ selectedLevel' = ""
    /\ screen' = "setup-screen"
    /\ UNCHANGED <<loadState, questions, disabled>>
    /\ PreviewRest

NextPreview ==
    \/ PreviewLoad
    \/ \E c \in CheckboxValues : PreviewCheckboxChange(c)
    \/ \E level \in PreviewLevels : PreviewLevelChange(level)
    \/ PreviewSelectAll
    \/ PreviewClearAll
    \/ \E group \in SubjectGroups : PreviewSectionHeaderClick(group)
    \/ PreviewStartSession
    \/ PreviewEndSession
    \/ PreviewBackToSetup
    \/ PreviewResetFilters

SpecPreview == InitPreview /\ [][NextPreview]_vars

\* every entry of the Map is what the filter selects from the current pool
\* for the entry's subjects and level
CacheAgreesWithPool ==
    uiPc = "preview" =>
        \A chk \in SUBSET CheckboxValues, lvl \in LevelValues :
            createFilterCacheKey(chk, lvl) \in DOMAIN uiShown.cache
                => uiShown.cache[createFilterCacheKey(chk, lvl)] = Filtered(questions, chk, lvl)

\* C40: the memoized pool preview is never stale: after any sequence of
\* filter changes, bank load, session starts and session ends, the count
\* #pool-preview shows equals the number of questions of the current pool
\* that filterQuestions would select for the checked subjects and the
\* checked level.
C40_PreviewNeverStale ==
    (uiPc = "preview" /\ uiShown.written)
        => uiShown.count = Len(Filtered(questions, checked, selectedLevel))

====
